---- MODULE Spec2Model ----
(***************************************************************************)
(* aca-safety-net: the pre-execution hook that decides Allow / Ask / Block *)
(* for one tool invocation.  Command strings and paths are TLA+ strings;   *)
(* a character is a string of length 1, read with Ch(s, i).  The character *)
(* "~" stands for a two-byte UTF-8 character (such as U+00E9).             *)
(***************************************************************************)
EXTENDS Integers, Sequences, FiniteSets, TLC

None == "<none>"

(***************************************************************************)
(* Strings (Rust str / String)                                             *)
(***************************************************************************)
Ch(s, i) == SubSeq(s, i, i)

StartsWith(s, p) == Len(s) >= Len(p) /\ SubSeq(s, 1, Len(p)) = p

EndsWith(s, p) == Len(s) >= Len(p) /\ SubSeq(s, Len(s) - Len(p) + 1, Len(s)) = p

Contains(s, p) == \E i \in 1..(Len(s) - Len(p) + 1) : SubSeq(s, i, i + Len(p) - 1) = p

IsWhitespace(c) == c \in {" ", "\t", "\n"}

IsAlphabetic(c) ==
    Len(c) = 1 /\ Contains("abcdefghijklmnopqrstuvwxyzABCDEFGHIJKLMNOPQRSTUVWXYZ~", c)

IsAlphanumeric(c) == IsAlphabetic(c) \/ (Len(c) = 1 /\ Contains("0123456789", c))

\* str::trim
Trim(s) ==
    LET keep == {i \in 1..Len(s) : ~IsWhitespace(Ch(s, i))}
    IN  IF keep = {} THEN ""
        ELSE SubSeq(s, CHOOSE i \in keep : \A j \in keep : i <= j,
                       CHOOSE i \in keep : \A j \in keep : j <= i)

\* [&str]::join
RECURSIVE Join(_, _)
Join(words, sep) ==
    IF Len(words) = 0 THEN ""
    ELSE IF Len(words) = 1 THEN words[1]
    ELSE words[1] \o sep \o Join(Tail(words), sep)

\* str::find: the 1-based position of the first occurrence of the character, 0 if none
FindChar(s, c) ==
    LET hits == {i \in 1..Len(s) : Ch(s, i) = c}
    IN  IF hits = {} THEN 0 ELSE CHOOSE i \in hits : \A j \in hits : i <= j

\* str::split on one character
RECURSIVE SplitOn(_, _)
SplitOn(s, c) ==
    LET p == FindChar(s, c)
    IN  IF p = 0 THEN <<s>>
        ELSE <<SubSeq(s, 1, p - 1)>> \o SplitOn(SubSeq(s, p + 1, Len(s)), c)

\* The length of a string in bytes (str::len)
ByteLen(s) == Len(s) + Cardinality({i \in 1..Len(s) : Ch(s, i) = "~"})

(***************************************************************************)
(* Tokenizer (src/shell/tokenizer.rs)                                      *)
(***************************************************************************)
Word(text) == [type |-> "Word", text |-> text, value |-> ""]
Redirect(text) == [type |-> "Redirect", text |-> text, value |-> ""]
Assignment(name, value) == [type |-> "Assignment", text |-> name, value |-> value]

is_valid_var_name(s) ==
    /\ Len(s) >= 1
    /\ (IsAlphabetic(Ch(s, 1)) \/ Ch(s, 1) = "_")
    /\ \A i \in 2..Len(s) : IsAlphanumeric(Ch(s, i)) \/ Ch(s, i) = "_"

classify_token(s) ==
    LET eq_pos == FindChar(s, "=")
    IN  IF eq_pos > 1 /\ is_valid_var_name(SubSeq(s, 1, eq_pos - 1))
        THEN Assignment(SubSeq(s, 1, eq_pos - 1), SubSeq(s, eq_pos + 1, Len(s)))
        ELSE Word(s)

\* The redirection operator that starts at position i (a '>' or '<')
RedirAt(s, i) ==
    LET c == Ch(s, i)
        r1 == IF c = ">" /\ i + 1 <= Len(s) /\ Ch(s, i + 1) = ">" THEN ">>" ELSE c
        n1 == i + Len(r1)
        r2 == IF c = ">" /\ n1 <= Len(s) /\ Ch(s, n1) = "&" THEN r1 \o "&" ELSE r1
        n2 == i + Len(r2)
        r3 == IF c = "<" /\ n2 <= Len(s) /\ Ch(s, n2) = "<"
              THEN IF n2 + 1 <= Len(s) /\ Ch(s, n2 + 1) = "<" THEN "<<<" ELSE "<<"
              ELSE r2
    IN  r3

FlushWord(st) ==
    IF st.current # ""
    THEN [st EXCEPT !.tokens = Append(@, classify_token(st.current)), !.current = ""]
    ELSE st

\* The tokenizer's pass with the backslash kept in the word outside quotes too
TokenizeStep_keep_backslash(s, i, st) ==
    LET c == Ch(s, i) IN
    IF st.escape_next
    THEN [st EXCEPT !.current = @ \o c, !.escape_next = FALSE, !.next = i + 1]
    ELSE IF c = "\\" /\ ~st.in_single_quote
    THEN [st EXCEPT !.escape_next = TRUE, !.current = @ \o c, !.next = i + 1]
    ELSE IF c = "'" /\ ~st.in_double_quote
    THEN [st EXCEPT !.in_single_quote = ~@, !.next = i + 1]
    ELSE IF c = "\"" /\ ~st.in_single_quote
    THEN [st EXCEPT !.in_double_quote = ~@, !.next = i + 1]
    ELSE IF st.in_single_quote \/ st.in_double_quote
    THEN [st EXCEPT !.current = @ \o c, !.next = i + 1]
    ELSE IF IsWhitespace(c)
    THEN [FlushWord(st) EXCEPT !.next = i + 1]
    ELSE [st EXCEPT !.current = @ \o c, !.next = i + 1]

\* One pass of the tokenizer's while loop, for the character at position i;
\* the result carries the position of the next unread character.
TokenizeStep(s, i, st) ==
    LET c == Ch(s, i) IN
    IF st.escape_next
    THEN [st EXCEPT !.current = @ \o c, !.escape_next = FALSE, !.next = i + 1]
    ELSE IF c = "\\" /\ ~st.in_single_quote
    THEN IF ~st.in_double_quote
         THEN [st EXCEPT !.escape_next = TRUE, !.next = i + 1]
         ELSE [st EXCEPT !.escape_next = TRUE, !.current = @ \o c, !.next = i + 1]
    ELSE IF c = "'" /\ ~st.in_double_quote
    THEN [st EXCEPT !.in_single_quote = ~@, !.next = i + 1]
    ELSE IF c = "\"" /\ ~st.in_single_quote
    THEN [st EXCEPT !.in_double_quote = ~@, !.next = i + 1]
    ELSE IF st.in_single_quote \/ st.in_double_quote
    THEN [st EXCEPT !.current = @ \o c, !.next = i + 1]
    ELSE IF IsWhitespace(c)
    THEN [FlushWord(st) EXCEPT !.next = i + 1]
    ELSE IF c = ">" \/ c = "<"
    THEN LET redir == RedirAt(s, i)
         IN  [FlushWord(st) EXCEPT !.tokens = Append(@, Redirect(redir)),
                                   !.next = i + Len(redir)]
    ELSE [st EXCEPT !.current = @ \o c, !.next = i + 1]

TokenizeInit ==
    [tokens |-> <<>>, current |-> "", in_single_quote |-> FALSE,
     in_double_quote |-> FALSE, escape_next |-> FALSE, next |-> 1]

\* The loop over the characters lo..hi, folded by halves; a character the
\* step before has already consumed (st.next is beyond it) is passed over
RECURSIVE TokenizeLoop(_, _, _, _)
TokenizeLoop(s, lo, hi, st) ==
    IF lo > hi \/ hi < st.next THEN st
    ELSE IF lo = hi THEN TokenizeStep(s, lo, st)
    ELSE LET mid == (lo + hi) \div 2
         IN  TokenizeLoop(s, mid + 1, hi, TokenizeLoop(s, lo, mid, st))

tokenize(input) == FlushWord(TokenizeLoop(input, 1, Len(input), TokenizeInit)).tokens

\* The Word tokens' texts, in order (the filter_map every analyzer starts with)
RECURSIVE WordsOf(_)
WordsOf(tokens) ==
    IF Len(tokens) = 0 THEN <<>>
    ELSE (IF tokens[1].type = "Word" THEN <<tokens[1].text>> ELSE <<>>)
         \o WordsOf(Tail(tokens))

(***************************************************************************)
(* Splitter (src/shell/splitter.rs)                                        *)
(***************************************************************************)
CommandSegment(command, operator) == [command |-> command, operator |-> operator]

\* The push of the buffer as it is, without the trim
EmitSegment_untrimmed(st, operator) ==
    [st EXCEPT !.segments = IF st.current # ""
                            THEN Append(@, CommandSegment(st.current, operator))
                            ELSE @,
               !.current = ""]

\* trim the buffer, push it with the operator if it is not empty, clear the buffer
EmitSegment(st, operator) ==
    LET trimmed == Trim(st.current)
    IN  [st EXCEPT !.segments = IF trimmed # ""
                                THEN Append(@, CommandSegment(trimmed, operator))
                                ELSE @,
                   !.current = ""]

\* The splitter's pass without the escape_next branch: a backslash protects nothing
SplitStep_no_escape(s, i, st) ==
    LET c == Ch(s, i)
        peek == IF i + 1 <= Len(s) THEN Ch(s, i + 1) ELSE None
    IN
    IF c = "'" /\ ~st.in_double_quote
    THEN [st EXCEPT !.in_single_quote = ~@, !.current = @ \o c, !.next = i + 1]
    ELSE IF c = "\"" /\ ~st.in_single_quote
    THEN [st EXCEPT !.in_double_quote = ~@, !.current = @ \o c, !.next = i + 1]
    ELSE IF st.in_single_quote \/ st.in_double_quote
    THEN [st EXCEPT !.current = @ \o c, !.next = i + 1]
    ELSE IF c = "&"
    THEN IF peek = "&"
         THEN [EmitSegment(st, "And") EXCEPT !.next = i + 2]
         ELSE [EmitSegment(st, "Background") EXCEPT !.next = i + 1]
    ELSE IF c = "|"
    THEN IF peek = "|"
         THEN [EmitSegment(st, "Or") EXCEPT !.next = i + 2]
         ELSE [EmitSegment(st, "Pipe") EXCEPT !.next = i + 1]
    ELSE IF c = ";"
    THEN [EmitSegment(st, "Semicolon") EXCEPT !.next = i + 1]
    ELSE [st EXCEPT !.current = @ \o c, !.escape_next = (c = "\\"), !.next = i + 1]

\* One pass of the splitter's while loop, for the character at position i
SplitStep(s, i, st) ==
    LET c == Ch(s, i)
        peek == IF i + 1 <= Len(s) THEN Ch(s, i + 1) ELSE None
    IN
    IF st.escape_next
    THEN [st EXCEPT !.current = @ \o c, !.escape_next = FALSE, !.next = i + 1]
    ELSE IF c = "\\" /\ ~st.in_single_quote
    THEN [st EXCEPT !.escape_next = TRUE, !.current = @ \o c, !.next = i + 1]
    ELSE IF c = "'" /\ ~st.in_double_quote
    THEN [st EXCEPT !.in_single_quote = ~@, !.current = @ \o c, !.next = i + 1]
    ELSE IF c = "\"" /\ ~st.in_single_quote
    THEN [st EXCEPT !.in_double_quote = ~@, !.current = @ \o c, !.next = i + 1]
    ELSE IF st.in_single_quote \/ st.in_double_quote
    THEN [st EXCEPT !.current = @ \o c, !.next = i + 1]
    ELSE IF c = "&"
    THEN IF peek = "&"
         THEN [EmitSegment(st, "And") EXCEPT !.next = i + 2]
         ELSE [EmitSegment(st, "Background") EXCEPT !.next = i + 1]
    ELSE IF c = "|"
    THEN IF peek = "|"
         THEN [EmitSegment(st, "Or") EXCEPT !.next = i + 2]
         ELSE [EmitSegment(st, "Pipe") EXCEPT !.next = i + 1]
    ELSE IF c = ";"
    THEN [EmitSegment(st, "Semicolon") EXCEPT !.next = i + 1]
    ELSE [st EXCEPT !.current = @ \o c, !.next = i + 1]

SplitInit ==
    [segments |-> <<>>, current |-> "", in_single_quote |-> FALSE,
     in_double_quote |-> FALSE, escape_next |-> FALSE, next |-> 1]

\* The final segment, pushed after the loop
SplitFinish(st) == EmitSegment(st, None).segments

\* The loop over the characters lo..hi, folded by halves; a character the
\* step before has already consumed (st.next is beyond it) is passed over
RECURSIVE SplitLoop(_, _, _, _)
SplitLoop(s, lo, hi, st) ==
    IF lo > hi \/ hi < st.next THEN st
    ELSE IF lo = hi THEN SplitStep(s, lo, st)
    ELSE LET mid == (lo + hi) \div 2
         IN  SplitLoop(s, mid + 1, hi, SplitLoop(s, lo, mid, st))

split_commands(input) == SplitFinish(SplitLoop(input, 1, Len(input), SplitInit))

(***************************************************************************)
(* Wrapper stripper (src/shell/wrappers.rs)                                *)
(***************************************************************************)
WRAPPER_COMMANDS ==
    {"sudo", "doas", "su", "env", "nohup", "nice", "ionice", "timeout", "time",
     "strace", "ltrace", "watch"}

SHELL_COMMANDS == {"bash", "sh", "zsh", "dash"}

MAX_STRIP_DEPTH == 5

\* The index of the first token that is not an Assignment (Len + 1 if none)
RECURSIVE SkipAssignments(_, _)
SkipAssignments(tokens, idx) ==
    IF idx <= Len(tokens) /\ tokens[idx].type = "Assignment"
    THEN SkipAssignments(tokens, idx + 1)
    ELSE idx

\* The option-skipping loops of handle_wrapper: the index of the first word kept
RECURSIVE SkipSudo(_, _)
SkipSudo(words, start) ==
    IF start <= Len(words) /\ StartsWith(words[start], "-")
    THEN IF words[start] \in {"-u", "-g", "-C", "-D", "-h", "-p", "-r", "-t"}
         THEN SkipSudo(words, start + 2)
         ELSE SkipSudo(words, start + 1)
    ELSE start

RECURSIVE SkipEnv(_, _)
SkipEnv(words, start) ==
    IF start <= Len(words)
       /\ (StartsWith(words[start], "-") \/ Contains(words[start], "="))
    THEN SkipEnv(words, start + 1)
    ELSE start

RECURSIVE SkipTimeout(_, _)
SkipTimeout(words, start) ==
    IF start <= Len(words)
    THEN IF StartsWith(words[start], "-")
         THEN IF words[start] \in {"-s", "--signal", "-k", "--kill-after"}
              THEN SkipTimeout(words, start + 2)
              ELSE SkipTimeout(words, start + 1)
         ELSE start + 1
    ELSE start

RECURSIVE SkipNice(_, _)
SkipNice(words, start) ==
    IF start <= Len(words) /\ StartsWith(words[start], "-")
    THEN IF words[start] \in {"-n", "-c"}
         THEN SkipNice(words, start + 2)
         ELSE SkipNice(words, start + 1)
    ELSE start

RECURSIVE SkipGeneric(_, _)
SkipGeneric(words, start) ==
    IF start <= Len(words) /\ StartsWith(words[start], "-")
    THEN SkipGeneric(words, start + 1)
    ELSE start

SkipWrapperOptions(words) ==
    LET wrapper == words[1] IN
    IF wrapper = "sudo" THEN SkipSudo(words, 2)
    ELSE IF wrapper = "env" THEN SkipEnv(words, 2)
    ELSE IF wrapper = "timeout" THEN SkipTimeout(words, 2)
    ELSE IF wrapper \in {"nice", "ionice"} THEN SkipNice(words, 2)
    ELSE SkipGeneric(words, 2)

\* handle_shell_c's scan: the first Word after a "-c" Word that is not itself
\* "-c", or None
RECURSIVE ShellPayload(_, _)
ShellPayload(words, found_c) ==
    IF Len(words) = 0 THEN None
    ELSE IF words[1] = "-c" THEN ShellPayload(Tail(words), TRUE)
    ELSE IF found_c THEN words[1]
    ELSE ShellPayload(Tail(words), found_c)

RECURSIVE strip_wrappers_recursive(_, _)
\* handle_shell_c, given the Words of the tokens and the payload found
ShellCPayload(words, payload, depth) ==
    IF payload # None THEN strip_wrappers_recursive(payload, depth + 1)
    ELSE Join(words, " ")

handle_shell_c(tokens, depth) ==
    ShellCPayload(WordsOf(tokens), ShellPayload(WordsOf(tokens), FALSE), depth)

\* handle_wrapper that returns the remaining words without the recursive call
WrapperRemaining_once(words, start, depth) ==
    IF start > Len(words) THEN ""
    ELSE Join(SubSeq(words, start, Len(words)), " ")

\* handle_wrapper, given the Words of the tokens and the index of the first
\* word after the wrapper's options
WrapperRemaining(words, start, depth) ==
    IF start > Len(words) THEN ""
    ELSE strip_wrappers_recursive(Join(SubSeq(words, start, Len(words)), " "), depth + 1)

WrapperWords(words, depth) ==
    IF Len(words) = 0 THEN ""
    ELSE WrapperRemaining(words, SkipWrapperOptions(words), depth)

handle_wrapper(tokens, depth) == WrapperWords(WordsOf(tokens), depth)

\* strip_wrappers_recursive, given the tokens of the command and the index
\* of the first token that is no assignment
StripAt(command, tokens, idx, depth) ==
    IF idx > Len(tokens) THEN command
    ELSE IF tokens[idx].type # "Word" THEN command
    ELSE IF tokens[idx].text \in SHELL_COMMANDS
    THEN handle_shell_c(SubSeq(tokens, idx, Len(tokens)), depth)
    ELSE IF tokens[idx].text \in WRAPPER_COMMANDS
    THEN handle_wrapper(SubSeq(tokens, idx, Len(tokens)), depth)
    ELSE command

StripTokens(command, tokens, depth) ==
    StripAt(command, tokens, SkipAssignments(tokens, 1), depth)

\* strip_wrappers_recursive without the depth check
strip_wrappers_uncapped(command, depth) == StripTokens(command, tokenize(command), depth)

strip_wrappers_recursive(command, depth) ==
    IF depth >= MAX_STRIP_DEPTH THEN command
    ELSE StripTokens(command, tokenize(command), depth)

strip_wrappers(command) == strip_wrappers_recursive(command, 0)

(***************************************************************************)
(* Regular expressions (the regex crate, as Config::compile uses it).      *)
(* A pattern is its source text with the matcher it compiles to: a set of  *)
(* alternatives, each a sequence of parts; a part is a set of literals     *)
(* with the assertion in front of it (pre), the one behind it (post) and   *)
(* the gap that separates it from the part before.  This covers every      *)
(* pattern the built-in configuration and the tests use.                   *)
(***************************************************************************)
Part(gap, pre, lits, post) == [gap |-> gap, pre |-> pre, lits |-> lits, post |-> post]

Re(src, alts) == [src |-> src, valid |-> TRUE, alts |-> alts]

\* A pattern of one part
Re1(src, pre, lits, post) == Re(src, {<<Part("", pre, lits, post)>>})

\* A pattern text the regex crate refuses to compile
BadRe(src) == [src |-> src, valid |-> FALSE, alts |-> {}]

\* Option<String>::None for a pattern
NoPattern == [src |-> None, valid |-> TRUE, alts |-> {}]

\* \w of the regex crate
IsWordChar(c) == IsAlphanumeric(c) \/ c = "_"

WordCharAt(s, i) == i >= 1 /\ i <= Len(s) /\ IsWordChar(Ch(s, i))

\* \b holds between the characters at i - 1 and i
WordBoundary(s, i) == WordCharAt(s, i - 1) # WordCharAt(s, i)

AllWhitespace(s, from, to) == \A k \in from..to : IsWhitespace(Ch(s, k))

PreHolds(pre, s, j) ==
    CASE pre = "" -> TRUE
      [] pre = "^" -> j = 1
      [] pre = "^\\s*" -> AllWhitespace(s, 1, j - 1)
      [] pre = "\\b" -> WordBoundary(s, j)
      [] pre = "(^|/)" -> j = 1 \/ Ch(s, j - 1) = "/"

PostHolds(post, s, e) ==
    CASE post = "" -> TRUE
      [] post = "$" -> e = Len(s) + 1
      [] post = "\\s*$" -> AllWhitespace(s, e, Len(s))
      [] post = "\\b" -> WordBoundary(s, e)

\* Where part k may start when the part before it ended in front of position pos
GapHolds(gap, s, pos, j) ==
    CASE gap = "" -> j = pos
      [] gap = ".*" -> j >= pos
      [] gap = "\\s+" -> j > pos /\ AllWhitespace(s, pos, j - 1)

\* parts k.. of the sequence match s, part k starting no earlier than pos
\* (anywhere, for the first part: the search is unanchored)
RECURSIVE SeqMatches(_, _, _, _)
SeqMatches(parts, k, s, pos) ==
    IF k > Len(parts) THEN TRUE
    ELSE \E j \in 1..(Len(s) + 1) : \E l \in parts[k].lits :
            /\ k = 1 \/ GapHolds(parts[k].gap, s, pos, j)
            /\ j + Len(l) - 1 <= Len(s)
            /\ SubSeq(s, j, j + Len(l) - 1) = l
            /\ PreHolds(parts[k].pre, s, j)
            /\ PostHolds(parts[k].post, s, j + Len(l))
            /\ SeqMatches(parts, k + 1, s, j + Len(l))

\* Regex::is_match
is_match(re, text) == \E parts \in re.alts : SeqMatches(parts, 1, text, 1)

(***************************************************************************)
(* Decisions (src/decision.rs)                                             *)
(***************************************************************************)
Allow == [kind |-> "Allow", rule |-> None, reason |-> None, details |-> None,
          suggestion |-> None]

Block(rule, reason) ==
    [kind |-> "Block", rule |-> rule, reason |-> reason, details |-> None,
     suggestion |-> None]

Ask(rule, reason) ==
    [kind |-> "Ask", rule |-> rule, reason |-> reason, details |-> None,
     suggestion |-> None]

with_details(d, details) == [d EXCEPT !.details = details]

with_suggestion(d, suggestion) == [d EXCEPT !.suggestion = suggestion]

\* Option<Decision>::None
NoDecision == [kind |-> "None", rule |-> None, reason |-> None, details |-> None,
               suggestion |-> None]

is_blocked(d) == d.kind = "Block"

\* `if decision.is_blocked() { return decision; }` followed by the rest
OrElse(decision, rest) == IF is_blocked(decision) THEN decision ELSE rest

is_ask(d) == d.kind = "Ask"

(***************************************************************************)
(* Configuration (src/config.rs)                                           *)
(***************************************************************************)
DEFAULT_SENSITIVE_FILES ==
    << Re1("\\.env\\b", "", {".env"}, "\\b"),
       Re1("\\.envrc\\b", "", {".envrc"}, "\\b"),
       Re1("credentials", "", {"credentials"}, ""),
       Re1("secrets", "", {"secrets"}, ""),
       Re1("\\.netrc\\b", "", {".netrc"}, "\\b"),
       Re1("\\.npmrc\\b", "", {".npmrc"}, "\\b"),
       Re1("\\.pypirc\\b", "", {".pypirc"}, "\\b"),
       Re1("\\.pem\\b", "", {".pem"}, "\\b"),
       Re1("\\.key\\b", "", {".key"}, "\\b"),
       Re1("id_rsa", "", {"id_rsa"}, ""),
       Re1("id_ed25519", "", {"id_ed25519"}, ""),
       Re1("id_ecdsa", "", {"id_ecdsa"}, ""),
       Re1("\\.git-credentials", "", {".git-credentials"}, ""),
       Re1("\\.kube/config", "", {".kube/config"}, ""),
       Re1("kubeconfig", "", {"kubeconfig"}, ""),
       Re1("\\.aws/credentials", "", {".aws/credentials"}, ""),
       Re1("\\.config/gcloud/", "", {".config/gcloud/"}, ""),
       Re1("\\.config/gh/hosts\\.yml", "", {".config/gh/hosts.yml"}, ""),
       Re1("_history\\b", "", {"_history"}, "\\b"),
       Re1("\\.bash_history", "", {".bash_history"}, ""),
       Re1("\\.zsh_history", "", {".zsh_history"}, "") >>

DEFAULT_READ_COMMANDS ==
    {"cat", "head", "tail", "less", "more", "grep", "rg", "ag", "sed", "awk",
     "strings", "xxd", "hexdump", "bat", "view"}

DefaultReadCommandsRe ==
    Re1("\\b(cat|head|tail|less|more|grep|rg|ag|sed|awk|strings|xxd|hexdump|bat|view)\\b",
        "\\b", DEFAULT_READ_COMMANDS, "\\b")

DenyRule(tool, pattern, reason) == [tool |-> tool, pattern |-> pattern, reason |-> reason]

DEFAULT_DENY_RULES ==
    << DenyRule("Bash", Re1("^\\s*printenv", "^\\s*", {"printenv"}, ""),
                "Exposes environment variables"),
       DenyRule("Bash", Re1("^\\s*set\\s*$", "^\\s*", {"set"}, "\\s*$"),
                "Exposes shell variables"),
       DenyRule("Bash", Re("^\\s*declare\\s+-x",
                           {<<Part("", "^\\s*", {"declare"}, ""),
                              Part("\\s+", "", {"-x"}, "")>>}),
                "Exposes exported variables"),
       DenyRule("Bash", Re1("^\\s*export\\s*$", "^\\s*", {"export"}, "\\s*$"),
                "Exposes exported variables"),
       DenyRule("Bash", Re("/proc/.*/environ",
                           {<<Part("", "", {"/proc/"}, ""),
                              Part(".*", "", {"/environ"}, "")>>}),
                "Exposes process environment"),
       DenyRule("Bash", Re("\\bps\\b.*(-E|auxe)",
                           {<<Part("", "\\b", {"ps"}, "\\b"),
                              Part(".*", "", {"-E", "auxe"}, "")>>}),
                "Exposes process environment"),
       DenyRule("Bash", Re("\\b(docker|podman)\\s+(exec|run)\\b.*\\benv\\b",
                           {<<Part("", "\\b", {"docker", "podman"}, ""),
                              Part("\\s+", "", {"exec", "run"}, "\\b"),
                              Part(".*", "\\b", {"env"}, "\\b")>>}),
                "Exposes container environment"),
       DenyRule("Bash", Re("\\b(docker|podman)\\s+inspect\\b",
                           {<<Part("", "\\b", {"docker", "podman"}, ""),
                              Part("\\s+", "", {"inspect"}, "\\b")>>}),
                "Exposes container configuration"),
       DenyRule("Bash", Re("\\b(docker-compose|docker\\s+compose)\\s+exec\\b.*\\benv\\b",
                           {<<Part("", "\\b", {"docker-compose"}, ""),
                              Part("\\s+", "", {"exec"}, "\\b"),
                              Part(".*", "\\b", {"env"}, "\\b")>>,
                            <<Part("", "\\b", {"docker"}, ""),
                              Part("\\s+", "", {"compose"}, ""),
                              Part("\\s+", "", {"exec"}, "\\b"),
                              Part(".*", "\\b", {"env"}, "\\b")>>}),
                "Exposes container environment") >>

CustomRule(name, tool, pattern, action, reason) ==
    [name |-> name, tool |-> tool, pattern |-> pattern, action |-> action,
     reason |-> reason]

ParanoidConfigDefault == [enabled |-> FALSE, extra_patterns |-> <<>>]

GitConfigDefault ==
    [block_destructive |-> TRUE, block_add_sensitive |-> TRUE,
     force_push_allowed_branches |-> <<>>]

RmConfigDefault == [block_outside_cwd |-> TRUE, allowed_paths |-> <<"/tmp", "/var/tmp">>]

AuditConfigDefault == [enabled |-> FALSE, path |-> None]

DependencyConfigDefault ==
    [enabled |-> TRUE,
     patterns |-> << Re1("(^|/)Cargo\\.toml$", "(^|/)", {"Cargo.toml"}, "$"),
                    Re1("(^|/)pyproject\\.toml$", "(^|/)", {"pyproject.toml"}, "$"),
                    Re1("(^|/)package\\.json$", "(^|/)", {"package.json"}, "$"),
                    Re1("(^|/)requirements\\.txt$", "(^|/)", {"requirements.txt"}, "$"),
                    Re1("(^|/)Gemfile$", "(^|/)", {"Gemfile"}, "$"),
                    Re1("(^|/)go\\.mod$", "(^|/)", {"go.mod"}, "$"),
                    Re1("(^|/)pom\\.xml$", "(^|/)", {"pom.xml"}, "$"),
                    Re1("(^|/)build\\.gradle(\\.kts)?$", "(^|/)", {"build.gradle", "build.gradle.kts"}, "$"),
                    Re1("(^|/)composer\\.json$", "(^|/)", {"composer.json"}, "$"),
                    Re1("(^|/)Package\\.swift$", "(^|/)", {"Package.swift"}, "$") >>,
     suggestion |->
        "Use package manager CLI (cargo add, uv add, npm install, etc.) instead of editing directly"]

\* Config::default
ConfigDefault ==
    [sensitive_files |-> DEFAULT_SENSITIVE_FILES,
     read_commands |-> DefaultReadCommandsRe,
     deny |-> DEFAULT_DENY_RULES,
     rules |-> <<>>,
     paranoid |-> ParanoidConfigDefault,
     git |-> GitConfigDefault,
     rm |-> RmConfigDefault,
     audit |-> AuditConfigDefault,
     dependencies |-> DependencyConfigDefault]

\* Config::compile: Err when a pattern of the sensitive files, the read
\* commands, the deny rules, the paranoid extras or (if enabled) the
\* dependency patterns does not compile.  Custom rules are not compiled here.
CompileFails(config) ==
    \/ \E i \in 1..Len(config.sensitive_files) : ~config.sensitive_files[i].valid
    \/ (config.read_commands # NoPattern /\ ~config.read_commands.valid)
    \/ \E i \in 1..Len(config.deny) : ~config.deny[i].pattern.valid
    \/ \E i \in 1..Len(config.paranoid.extra_patterns) :
          ~config.paranoid.extra_patterns[i].valid
    \/ (config.dependencies.enabled
        /\ \E i \in 1..Len(config.dependencies.patterns) :
              ~config.dependencies.patterns[i].valid)

\* The least index of a set of indices, 0 if it is empty
FirstIndex(hits) ==
    IF hits = {} THEN 0 ELSE CHOOSE i \in hits : \A j \in hits : i <= j

\* CompiledConfig::is_sensitive_path: the source of the first matching pattern
is_sensitive_path(config, path) ==
    LET Hit(i) == is_match(config.sensitive_files[i], path)
        i == FirstIndex({k \in 1..Len(config.sensitive_files) : Hit(k)})
    IN  IF i = 0 THEN None ELSE config.sensitive_files[i].src

\* CompiledConfig::is_read_command
is_read_command(config, command) ==
    config.read_commands # NoPattern /\ is_match(config.read_commands, command)

\* CompiledConfig::matches_paranoid: sensitive patterns first, then the extras
matches_paranoid(config, text) ==
    IF ~config.paranoid.enabled THEN None
    ELSE LET pats == config.sensitive_files \o config.paranoid.extra_patterns
             Hit(i) == is_match(pats[i], text)
             i == FirstIndex({k \in 1..Len(pats) : Hit(k)})
         IN  IF i = 0 THEN None ELSE pats[i].src

\* is_dependency_file without the test of dependencies.enabled
is_dependency_file_always(config, path) ==
    \E i \in 1..Len(config.dependencies.patterns) :
        is_match(config.dependencies.patterns[i], path)

\* CompiledConfig::is_dependency_file
is_dependency_file(config, path) ==
    /\ config.dependencies.enabled
    /\ \E i \in 1..Len(config.dependencies.patterns) :
          is_match(config.dependencies.patterns[i], path)

(***************************************************************************)
(* Rules (src/rules)                                                       *)
(***************************************************************************)
ENV_TIP == "Tip: .env.example, .env.sample, .env.template, and .env.dist are allowed by default"

\* rules/sensitive_files.rs
check_sensitive_path(path, config) ==
    LET pattern == is_sensitive_path(config, path) IN
    IF pattern # None
    THEN LET block == Block("secrets.sensitive_file",
                            "access to sensitive file matching '" \o pattern \o "'")
         IN  IF Contains(pattern, "\\.env") THEN with_details(block, ENV_TIP) ELSE block
    ELSE Allow

\* rules/custom.rs: the first rule for the tool whose pattern compiles and
\* matches and whose action is allow or block
RECURSIVE CustomRulesFrom(_, _, _, _)
CustomRulesFrom(rules, i, tool, content) ==
    IF i > Len(rules) THEN Allow
    ELSE LET rule == rules[i] IN
         IF rule.tool # tool THEN CustomRulesFrom(rules, i + 1, tool, content)
         ELSE IF ~rule.pattern.valid THEN CustomRulesFrom(rules, i + 1, tool, content)
         ELSE IF is_match(rule.pattern, content)
         THEN IF rule.action = "allow" THEN Allow
              ELSE IF rule.action = "block"
              THEN Block(rule.name,
                         IF rule.reason # None THEN rule.reason
                         ELSE "blocked by custom rule '" \o rule.name \o "'")
              ELSE CustomRulesFrom(rules, i + 1, tool, content)
         ELSE CustomRulesFrom(rules, i + 1, tool, content)

\* The custom rules with every block rule consulted before the allow rules
check_custom_rules_block_first(tool, content, config) ==
    LET Blocks(i) == /\ config.rules[i].tool = tool
                     /\ config.rules[i].action = "block"
                     /\ config.rules[i].pattern.valid
                     /\ is_match(config.rules[i].pattern, content)
        i == FirstIndex({k \in 1..Len(config.rules) : Blocks(k)})
    IN  IF i = 0 THEN Allow
        ELSE Block(config.rules[i].name,
                   IF config.rules[i].reason # None THEN config.rules[i].reason
                   ELSE "blocked by custom rule '" \o config.rules[i].name \o "'")

check_custom_rules(tool, content, config) == CustomRulesFrom(config.rules, 1, tool, content)

InWords(words, w) == \E i \in 1..Len(words) : words[i] = w

\* SubSeq from index i to the end (an empty sequence when i is past the end)
From(words, i) == SubSeq(words, i, Len(words))

\* A short-option word that carries the letter r or R (-r, -rf, -fR, ...)
ShortRecursive(w) ==
    StartsWith(w, "-") /\ ~StartsWith(w, "--") /\ (Contains(w, "r") \/ Contains(w, "R"))

IsRm(w) == w = "rm" \/ EndsWith(w, "/rm")

\* rules/git.rs
analyze_git_checkout(args, config) ==
    IF InWords(args, "--")
    THEN Block("git.checkout", "git checkout -- discards uncommitted changes")
    ELSE IF InWords(args, "-f") \/ InWords(args, "--force")
    THEN Block("git.checkout.force", "git checkout --force discards uncommitted changes")
    ELSE Allow

analyze_git_reset(args, config) ==
    IF InWords(args, "--hard")
    THEN Block("git.reset.hard", "git reset --hard discards all uncommitted changes")
    ELSE Allow

\* The remote and branch loop of analyze_git_push: <<remote, branch>>
RECURSIVE PushTargets(_, _, _, _, _)
PushTargets(args, i, skip_next, remote, branch) ==
    IF i > Len(args) THEN <<remote, branch>>
    ELSE IF skip_next THEN PushTargets(args, i + 1, FALSE, remote, branch)
    ELSE IF StartsWith(args[i], "-")
    THEN PushTargets(args, i + 1,
                     args[i] \in {"-u", "--set-upstream", "-o", "--push-option"},
                     remote, branch)
    ELSE IF remote = None THEN PushTargets(args, i + 1, FALSE, args[i], branch)
    ELSE IF branch = None THEN PushTargets(args, i + 1, FALSE, remote, args[i])
    ELSE PushTargets(args, i + 1, FALSE, remote, branch)

PROTECTED_BRANCHES == {"main", "master", "develop", "release"}

analyze_git_push(args, config) ==
    LET is_force == \E i \in 1..Len(args) :
                       \/ args[i] \in {"-f", "--force", "--force-with-lease"}
                       \/ StartsWith(args[i], "--force-with-lease=")
        branch == PushTargets(args, 1, FALSE, None, None)[2]
        target_branch == IF branch = None THEN "HEAD" ELSE branch
    IN  IF ~is_force THEN Allow
        ELSE IF InWords(config.git.force_push_allowed_branches, target_branch) THEN Allow
        ELSE IF target_branch \in PROTECTED_BRANCHES
        THEN Block("git.push.force",
                   "force push to protected branch '" \o target_branch \o "' is blocked")
        ELSE Allow

analyze_git_branch(args, config) ==
    IF InWords(args, "-D")
    THEN LET NotOpt(i) == ~StartsWith(args[i], "-")
             b == FirstIndex({k \in 1..Len(args) : NotOpt(k)})
         IN  Block("git.branch.force_delete",
                   "git branch -D force-deletes branch"
                      \o (IF b = 0 THEN "" ELSE " '" \o args[b] \o "'"))
    ELSE Allow

analyze_git_stash(args, config) ==
    IF Len(args) = 0 THEN Allow
    ELSE IF args[1] = "drop"
    THEN Block("git.stash.drop", "git stash drop permanently deletes stashed changes")
    ELSE IF args[1] = "clear"
    THEN Block("git.stash.clear", "git stash clear deletes ALL stashed changes")
    ELSE Allow

\* analyze_git_clean switched off by git.block_destructive = false
analyze_git_clean_flagged(args, config) ==
    IF ~config.git.block_destructive THEN Allow
    ELSE IF InWords(args, "-f") \/ InWords(args, "--force")
    THEN Block("git.clean", "git clean -f permanently deletes untracked files")
    ELSE Allow

analyze_git_clean(args, config) ==
    IF InWords(args, "-f") \/ InWords(args, "--force")
    THEN IF InWords(args, "-d") \/ InWords(args, "-x") \/ InWords(args, "-X")
         THEN Block("git.clean.force",
                    "git clean -fd/-fx permanently deletes untracked files/directories")
         ELSE Block("git.clean", "git clean -f permanently deletes untracked files")
    ELSE Allow

analyze_git_add(args, config) ==
    IF ~config.git.block_add_sensitive THEN Allow
    ELSE LET Hit(i) == ~StartsWith(args[i], "-")
                       /\ is_sensitive_path(config, args[i]) # None
             i == FirstIndex({k \in 1..Len(args) : Hit(k)})
         IN  IF i = 0 THEN Allow
             ELSE Block("git.add.sensitive",
                        "git add on sensitive file matching '"
                           \o is_sensitive_path(config, args[i]) \o "'")

analyze_git(tokens, config) ==
    LET words == WordsOf(tokens) IN
    IF Len(words) < 2 THEN Allow
    ELSE LET subcommand == words[2]
             args == From(words, 3)
         IN  CASE subcommand = "checkout" -> analyze_git_checkout(args, config)
               [] subcommand = "reset" -> analyze_git_reset(args, config)
               [] subcommand = "push" -> analyze_git_push(args, config)
               [] subcommand = "branch" -> analyze_git_branch(args, config)
               [] subcommand = "stash" -> analyze_git_stash(args, config)
               [] subcommand = "clean" -> analyze_git_clean(args, config)
               [] subcommand = "add" -> analyze_git_add(args, config)
               [] OTHER -> Allow

\* rules/rm.rs
DANGEROUS_PATHS ==
    <<"/", "/home", "/etc", "/usr", "/var", "/root", "/boot", "/sys", "/proc">>

\* Path::is_absolute
IsAbsolute(path) == StartsWith(path, "/")

\* Path::new(cwd).join(path), as text
PathJoin(cwd, path) ==
    IF IsAbsolute(path) THEN path
    ELSE IF cwd = "" THEN path
    ELSE IF EndsWith(cwd, "/") THEN cwd \o path
    ELSE cwd \o "/" \o path

\* The relative-path walk of is_path_within: FALSE as soon as depth goes negative
RECURSIVE DepthWalk(_, _, _)
DepthWalk(components, i, depth) ==
    IF i > Len(components) THEN TRUE
    ELSE IF components[i] = ".."
    THEN IF depth - 1 < 0 THEN FALSE ELSE DepthWalk(components, i + 1, depth - 1)
    ELSE IF components[i] \in {".", ""} THEN DepthWalk(components, i + 1, depth)
    ELSE DepthWalk(components, i + 1, depth + 1)

is_path_within(path, cwd, allowed_paths) ==
    IF IsAbsolute(path)
    THEN \/ StartsWith(path, cwd)
         \/ \E i \in 1..Len(allowed_paths) : StartsWith(path, allowed_paths[i])
    ELSE DepthWalk(SplitOn(path, "/"), 1, 0)

\* The test of one entry of dangerous_paths against the normalized path
IsDangerous(normalized, dangerous) ==
    \/ normalized = dangerous
    \/ (StartsWith(normalized, dangerous \o "/")
        /\ ByteLen(normalized) <= ByteLen(dangerous) + 2)

\* check_rm_path: Some(Block) or None
check_rm_path(path, config, cwd) ==
    LET normalized == IF IsAbsolute(path) THEN path
                      ELSE IF cwd # None THEN PathJoin(cwd, path)
                      ELSE path
    IN  IF \E i \in 1..Len(DANGEROUS_PATHS) : IsDangerous(normalized, DANGEROUS_PATHS[i])
        THEN Block("rm.dangerous_path", "rm -rf on system path '" \o path \o "' is blocked")
        ELSE IF /\ config.rm.block_outside_cwd
                /\ cwd # None
                /\ ~is_path_within(path, cwd, config.rm.allowed_paths)
        THEN Block("rm.outside_cwd", "rm -rf outside working directory: '" \o path \o "'")
        ELSE NoDecision

\* The flag loop of analyze_rm over the words after "rm": the paths collected
RECURSIVE RmPaths(_)
RmPaths(args) ==
    IF Len(args) = 0 THEN <<>>
    ELSE (IF ~StartsWith(args[1], "-") THEN <<args[1]>> ELSE <<>>) \o RmPaths(Tail(args))

RmRecursive(args) ==
    \E i \in 1..Len(args) : ShortRecursive(args[i]) \/ args[i] = "--recursive"

analyze_rm(tokens, config, cwd) ==
    LET words == WordsOf(tokens) IN
    IF Len(words) = 0 THEN Allow
    ELSE LET args == Tail(words)
             paths == RmPaths(args)
             Hit(i) == check_rm_path(paths[i], config, cwd) # NoDecision
             i == FirstIndex({k \in 1..Len(paths) : Hit(k)})
         IN  IF ~RmRecursive(args) THEN Allow
             ELSE IF i = 0 THEN Allow
             ELSE check_rm_path(paths[i], config, cwd)

\* rules/find.rs: the -exec / -execdir loop; TRUE when it returns the block
RECURSIVE FindExecScan(_, _, _, _)
FindExecScan(words, i, in_exec, exec_has_rm) ==
    IF i > Len(words) THEN FALSE
    ELSE IF words[i] \in {"-exec", "-execdir"} THEN FindExecScan(words, i + 1, TRUE, exec_has_rm)
    ELSE IF in_exec
    THEN IF words[i] \in {";", "+", "\\;"}
         THEN IF exec_has_rm THEN TRUE ELSE FindExecScan(words, i + 1, FALSE, FALSE)
         ELSE IF IsRm(words[i]) THEN FindExecScan(words, i + 1, TRUE, TRUE)
         ELSE FindExecScan(words, i + 1, TRUE, exec_has_rm)
    ELSE FindExecScan(words, i + 1, in_exec, exec_has_rm)

\* the -ok / -okdir loop
RECURSIVE FindOkScan(_, _, _)
FindOkScan(words, i, in_ok) ==
    IF i > Len(words) THEN FALSE
    ELSE IF words[i] \in {"-ok", "-okdir"} THEN FindOkScan(words, i + 1, TRUE)
    ELSE IF in_ok
    THEN IF words[i] \in {";", "\\;"} THEN FindOkScan(words, i + 1, FALSE)
         ELSE IF IsRm(words[i]) THEN TRUE
         ELSE FindOkScan(words, i + 1, TRUE)
    ELSE FindOkScan(words, i + 1, in_ok)

analyze_find(tokens, config) ==
    LET words == WordsOf(tokens) IN
    IF Len(words) = 0 THEN Allow
    ELSE IF InWords(words, "-delete")
    THEN Block("find.delete", "find -delete permanently deletes matching files")
    ELSE IF FindExecScan(words, 1, FALSE, FALSE)
    THEN Block("find.exec_rm", "find -exec rm permanently deletes matching files")
    ELSE IF FindOkScan(words, 1, FALSE)
    THEN Block("find.ok_rm", "find -ok rm can delete matching files (interactive)")
    ELSE Allow

\* rules/xargs.rs
XARGS_ARG_OPTIONS ==
    {"-I", "-L", "-n", "-P", "-s", "-a", "-E", "-d", "--delimiter", "--max-args",
     "--max-procs", "--replace", "--max-lines", "--arg-file", "--eof", "--max-chars"}

RECURSIVE XargsScan(_, _)
XargsScan(words, i) ==
    IF i > Len(words) THEN Allow
    ELSE IF StartsWith(words[i], "-")
    THEN IF words[i] \in XARGS_ARG_OPTIONS THEN XargsScan(words, i + 2)
         ELSE XargsScan(words, i + 1)
    ELSE IF IsRm(words[i])
    THEN LET remaining == From(words, i) IN
         IF \E k \in 1..Len(remaining) :
               remaining[k] = "--recursive" \/ ShortRecursive(remaining[k])
         THEN Block("xargs.rm_rf",
                    "xargs rm -rf is dangerous - deletes files from piped input")
         ELSE Block("xargs.rm", "xargs rm is dangerous - deletes files from piped input")
    ELSE Allow

analyze_xargs(tokens, config) ==
    LET words == WordsOf(tokens) IN
    IF Len(words) = 0 THEN Allow ELSE XargsScan(words, 2)

\* rules/parallel.rs
analyze_parallel(tokens, config) ==
    LET words == WordsOf(tokens) IN
    IF Len(words) = 0 THEN Allow
    ELSE LET args == Tail(words)
             found_rm == \E i \in 1..Len(args) : IsRm(args[i])
             has_recursive == \E i \in 1..Len(args) :
                                 args[i] = "--recursive" \/ ShortRecursive(args[i])
         IN  IF found_rm
             THEN IF has_recursive
                  THEN Block("parallel.rm_rf",
                             "parallel rm -rf is dangerous - deletes files in parallel from input")
                  ELSE Block("parallel.rm",
                             "parallel rm is dangerous - deletes files in parallel from input")
             ELSE Allow

\* rules/heroku.rs
analyze_heroku(tokens, config) ==
    LET words == WordsOf(tokens) IN
    IF Len(words) < 2 THEN Allow
    ELSE CASE words[2] = "auth:token" ->
                Block("heroku.auth.token", "heroku auth:token exposes authentication token")
           [] words[2] = "config" ->
                Block("heroku.config",
                      "heroku config exposes environment variables which may contain secrets")
           [] words[2] = "config:get" ->
                Block("heroku.config.get",
                      "heroku config:get exposes environment variable values")
           [] words[2] = "pg:credentials" ->
                Block("heroku.pg.credentials",
                      "heroku pg:credentials exposes database credentials")
           [] words[2] = "pg:credentials:url" ->
                Block("heroku.pg.credentials",
                      "heroku pg:credentials:url exposes database connection string with credentials")
           [] words[2] = "redis:credentials" ->
                Block("heroku.redis.credentials",
                      "heroku redis:credentials exposes Redis credentials")
           [] OTHER -> Allow

\* rules/aws.rs
analyze_aws(tokens, config) ==
    LET words == WordsOf(tokens) IN
    IF Len(words) < 3 THEN Allow
    ELSE LET service == words[2]
             command == words[3]
         IN  CASE service = "secretsmanager" /\ command = "get-secret-value" ->
                    Block("aws.secretsmanager.get",
                          "aws secretsmanager get-secret-value exposes secret contents")
               [] service = "ssm"
                  /\ command \in {"get-parameter", "get-parameters", "get-parameters-by-path"}
                  /\ InWords(words, "--with-decryption") ->
                    Block("aws.ssm.decrypt",
                          "aws ssm get-parameter with --with-decryption exposes decrypted secrets")
               [] service = "kms" /\ command = "decrypt" ->
                    Block("aws.kms.decrypt", "aws kms decrypt exposes decrypted data")
               [] service = "iam" /\ command = "list-access-keys" ->
                    Block("aws.iam.keys", "aws iam list-access-keys exposes access key IDs")
               [] service = "iam" /\ command = "get-access-key-last-used" ->
                    Block("aws.iam.keys",
                          "aws iam get-access-key-last-used exposes access key information")
               [] service = "iam" /\ command = "create-access-key" ->
                    Block("aws.iam.keys",
                          "aws iam create-access-key creates and exposes new credentials")
               [] service = "sts" /\ command = "get-session-token" ->
                    Block("aws.sts.credentials",
                          "aws sts get-session-token exposes temporary credentials")
               [] service = "sts" /\ command = "assume-role" ->
                    Block("aws.sts.credentials",
                          "aws sts assume-role exposes temporary credentials")
               [] service = "configure" /\ command = "export-credentials" ->
                    Block("aws.configure.export",
                          "aws configure export-credentials exposes credentials")
               [] OTHER -> Allow

\* rules/gcloud.rs
analyze_gcloud(tokens, config) ==
    LET words == WordsOf(tokens) IN
    IF Len(words) < 2 THEN Allow
    ELSE CASE words[2] = "auth" ->
                IF Len(words) < 3 THEN Allow
                ELSE IF words[3] = "print-access-token"
                THEN Block("gcloud.auth.token",
                           "gcloud auth print-access-token exposes access token")
                ELSE IF words[3] = "print-identity-token"
                THEN Block("gcloud.auth.token",
                           "gcloud auth print-identity-token exposes identity token")
                ELSE IF words[3] = "application-default"
                        /\ Len(words) >= 4 /\ words[4] = "print-access-token"
                THEN Block("gcloud.auth.token",
                           "gcloud auth application-default print-access-token exposes ADC token")
                ELSE Allow
           [] words[2] = "secrets" ->
                IF Len(words) >= 4 /\ words[3] = "versions" /\ words[4] = "access"
                THEN Block("gcloud.secrets.access",
                           "gcloud secrets versions access exposes secret value")
                ELSE Allow
           [] words[2] = "sql" ->
                IF /\ Len(words) >= 4 /\ words[3] = "users" /\ words[4] = "set-password"
                   /\ \E i \in 1..Len(words) : StartsWith(words[i], "--password")
                THEN Block("gcloud.sql.password",
                           "gcloud sql users set-password with --password exposes password in command")
                ELSE Allow
           [] OTHER -> Allow

\* rules/uv.rs
analyze_uv(tokens, config) ==
    LET words == WordsOf(tokens) IN
    IF Len(words) < 2 THEN Allow
    ELSE CASE words[2] = "run" ->
                IF \E i \in 1..Len(words) :
                      \/ words[i] = "--with"
                      \/ StartsWith(words[i], "--with=")
                      \/ StartsWith(words[i], "--with-requirements")
                THEN Block("uv.run.with",
                           "uv run --with installs packages without modifying pyproject.toml. Use 'uv add <package>' to add dependencies instead")
                ELSE Allow
           [] words[2] = "pip" ->
                IF Len(words) >= 3 /\ words[3] = "install"
                THEN Block("uv.pip.install",
                           "uv pip install installs packages without modifying pyproject.toml. Use 'uv add <package>' to add dependencies instead")
                ELSE Allow
           [] OTHER -> Allow

\* rules/mod.rs: the verdict of the per-command analyzer for one segment
AnalyzeTokens(tokens, first, config, cwd) ==
    CASE first = "git" -> analyze_git(tokens, config)
      [] first = "rm" -> analyze_rm(tokens, config, cwd)
      [] first = "find" -> analyze_find(tokens, config)
      [] first = "xargs" -> analyze_xargs(tokens, config)
      [] first = "parallel" -> analyze_parallel(tokens, config)
      [] first = "heroku" -> analyze_heroku(tokens, config)
      [] first = "aws" -> analyze_aws(tokens, config)
      [] first = "gcloud" -> analyze_gcloud(tokens, config)
      [] first = "uv" -> analyze_uv(tokens, config)
      [] OTHER -> Allow

\* The first Word of the tokens, None if there is none
FirstWord(tokens) == IF Len(WordsOf(tokens)) = 0 THEN None ELSE WordsOf(tokens)[1]

\* The dispatch of analyze_command for one segment
AnalyzeStripped(tokens, config, cwd) ==
    AnalyzeTokens(tokens, FirstWord(tokens), config, cwd)

AnalyzeSegment(segment, config, cwd) ==
    AnalyzeStripped(tokenize(strip_wrappers(segment.command)), config, cwd)

\* The first blocking verdict over the segments, left to right
RECURSIVE AnalyzeSegmentsFrom(_, _, _, _)
AnalyzeSegmentsFrom(segments, i, config, cwd) ==
    IF i > Len(segments) THEN Allow
    ELSE OrElse(AnalyzeSegment(segments[i], config, cwd), AnalyzeSegmentsFrom(segments, i + 1, config, cwd))

analyze_command(command, config, cwd) ==
    AnalyzeSegmentsFrom(split_commands(command), 1, config, cwd)

(***************************************************************************)
(* Tool handlers (src/analysis)                                            *)
(***************************************************************************)
\* The deny-rule loop every handler starts with
DenyRules(tool, content, config) ==
    LET Hit(i) == config.deny[i].tool = tool /\ is_match(config.deny[i].pattern, content)
        i == FirstIndex({k \in 1..Len(config.deny) : Hit(k)})
    IN  IF i = 0 THEN Allow ELSE Block(config.deny[i].reason, config.deny[i].reason)

\* analyze_bash, 2: only a block of the custom rules is returned
CustomStage(tool, content, config) ==
    OrElse(check_custom_rules(tool, content, config), Allow)

\* analyze_bash, 3: the pattern of matches_paranoid, if any, blocks
ParanoidMention(pattern) ==
    IF pattern # None
    THEN Block("paranoid.sensitive_mention",
               "command mentions sensitive pattern '" \o pattern \o "'")
    ELSE Allow

ParanoidStage(command, config) == ParanoidMention(matches_paranoid(config, command))

\* analyze_bash, 4: the first sensitive non-option word of one segment
ReadWords(words, config) ==
    LET Hit(i) == ~StartsWith(words[i], "-")
                  /\ is_blocked(check_sensitive_path(words[i], config))
        i == FirstIndex({k \in 1..Len(words) : Hit(k)})
    IN  IF i = 0 THEN Allow ELSE check_sensitive_path(words[i], config)

ReadSegment(segment, config) ==
    ReadWords(WordsOf(tokenize(strip_wrappers(segment.command))), config)

RECURSIVE ReadSegmentsFrom(_, _, _)
ReadSegmentsFrom(segments, i, config) ==
    IF i > Len(segments) THEN Allow
    ELSE OrElse(ReadSegment(segments[i], config), ReadSegmentsFrom(segments, i + 1, config))

ReadStage(command, config) ==
    IF is_read_command(config, command)
    THEN ReadSegmentsFrom(split_commands(command), 1, config)
    ELSE Allow

\* analyze_bash, 5: git add on a sensitive path, for one segment
GitAddPaths(paths, config) ==
    LET Hit(i) == ~StartsWith(paths[i], "-")
                  /\ is_blocked(check_sensitive_path(paths[i], config))
        i == FirstIndex({k \in 1..Len(paths) : Hit(k)})
    IN  IF i = 0 THEN Allow
        ELSE Block("git.add.sensitive", "git add on sensitive file: " \o paths[i])

GitAddWords(words, config) ==
    IF Len(words) >= 2 /\ words[1] = "git" /\ words[2] = "add"
    THEN GitAddPaths(From(words, 3), config)
    ELSE Allow

GitAddSegment(segment, config) ==
    GitAddWords(WordsOf(tokenize(strip_wrappers(segment.command))), config)

RECURSIVE GitAddSegmentsFrom(_, _, _)
GitAddSegmentsFrom(segments, i, config) ==
    IF i > Len(segments) THEN Allow
    ELSE OrElse(GitAddSegment(segments[i], config), GitAddSegmentsFrom(segments, i + 1, config))

GitAddStage(command, config) == GitAddSegmentsFrom(split_commands(command), 1, config)

\* analyze_bash with the read-like check moved in front of the paranoid scan
analyze_bash_read_first(command, config, cwd) ==
    OrElse(DenyRules("Bash", command, config),
    OrElse(CustomStage("Bash", command, config),
    OrElse(ReadStage(command, config),
    OrElse(ParanoidStage(command, config),
    OrElse(GitAddStage(command, config),
           analyze_command(command, config, cwd))))))

\* analysis/bash.rs
analyze_bash(command, config, cwd) ==
    OrElse(DenyRules("Bash", command, config),
    OrElse(CustomStage("Bash", command, config),
    OrElse(ParanoidStage(command, config),
    OrElse(ReadStage(command, config),
    OrElse(GitAddStage(command, config),
           analyze_command(command, config, cwd))))))

\* analyze_read, 3
ParanoidFile(pattern) ==
    IF pattern # None
    THEN Block("paranoid.sensitive_file",
               "file path matches sensitive pattern '" \o pattern \o "'")
    ELSE Allow

\* analysis/read.rs
analyze_read(path, config) ==
    OrElse(DenyRules("Read", path, config),
    OrElse(CustomStage("Read", path, config),
    OrElse(ParanoidFile(matches_paranoid(config, path)),
           check_sensitive_path(path, config))))

\* The dependency-file Ask of analyze_write and analyze_edit
DependencyAsk(rule, reason, config) ==
    IF config.dependencies.suggestion # None
    THEN with_suggestion(Ask(rule, reason), config.dependencies.suggestion)
    ELSE Ask(rule, reason)

\* analysis/write.rs
analyze_write(path, config) ==
    OrElse(DenyRules("Write", path, config),
    OrElse(CustomStage("Write", path, config),
           IF is_dependency_file(config, path)
           THEN DependencyAsk("dependencies.write", "Writing dependency file: " \o path,
                              config)
           ELSE Allow))

\* analysis/edit.rs
analyze_edit(path, config) ==
    OrElse(DenyRules("Edit", path, config),
    OrElse(CustomStage("Edit", path, config),
           IF is_dependency_file(config, path)
           THEN DependencyAsk("dependencies.edit", "Editing dependency file: " \o path,
                              config)
           ELSE Allow))

(***************************************************************************)
(* Configuration layers (src/config.rs)                                    *)
(*                                                                         *)
(* A layer file is [exists, well_formed, sets, values]: `sets` names the   *)
(* keys the TOML text sets, `values` holds their values.                   *)
(***************************************************************************)
NoFile == [exists |-> FALSE, well_formed |-> TRUE, sets |-> {}, values |-> ConfigDefault]

MalformedFile == [exists |-> TRUE, well_formed |-> FALSE, sets |-> {}, values |-> ConfigDefault]

LayerFile(sets, values) ==
    [exists |-> TRUE, well_formed |-> TRUE, sets |-> sets, values |-> values]

\* toml::from_str into Config: every struct is #[serde(default)], so a key
\* the text leaves out takes the value of the struct's Default
FromToml(file) ==
    LET Pick(key, given, default) == IF key \in file.sets THEN given ELSE default
        v == file.values
        d == ConfigDefault
    IN  [sensitive_files |-> Pick("sensitive_files", v.sensitive_files, d.sensitive_files),
         read_commands |-> Pick("read_commands", v.read_commands, d.read_commands),
         deny |-> Pick("deny", v.deny, d.deny),
         rules |-> Pick("rules", v.rules, d.rules),
         paranoid |->
            [enabled |-> Pick("paranoid.enabled", v.paranoid.enabled, d.paranoid.enabled),
             extra_patterns |-> Pick("paranoid.extra_patterns", v.paranoid.extra_patterns,
                                     d.paranoid.extra_patterns)],
         git |->
            [block_destructive |-> Pick("git.block_destructive", v.git.block_destructive,
                                        d.git.block_destructive),
             block_add_sensitive |-> Pick("git.block_add_sensitive",
                                          v.git.block_add_sensitive,
                                          d.git.block_add_sensitive),
             force_push_allowed_branches |->
                Pick("git.force_push_allowed_branches", v.git.force_push_allowed_branches,
                     d.git.force_push_allowed_branches)],
         rm |->
            [block_outside_cwd |-> Pick("rm.block_outside_cwd", v.rm.block_outside_cwd,
                                        d.rm.block_outside_cwd),
             allowed_paths |-> Pick("rm.allowed_paths", v.rm.allowed_paths,
                                    d.rm.allowed_paths)],
         audit |->
            [enabled |-> Pick("audit.enabled", v.audit.enabled, d.audit.enabled),
             path |-> Pick("audit.path", v.audit.path, d.audit.path)],
         dependencies |->
            [enabled |-> Pick("dependencies.enabled", v.dependencies.enabled,
                              d.dependencies.enabled),
             patterns |-> Pick("dependencies.patterns", v.dependencies.patterns,
                               d.dependencies.patterns),
             suggestion |-> Pick("dependencies.suggestion", v.dependencies.suggestion,
                                 d.dependencies.suggestion)]]

\* merge with the flags of git and rm taken from the other config
merge_flags_copied(self, other) ==
    [self EXCEPT !.git.block_destructive = other.git.block_destructive,
                 !.git.block_add_sensitive = other.git.block_add_sensitive,
                 !.rm.block_outside_cwd = other.rm.block_outside_cwd]

\* merge with every boolean taken from the other config
merge_last_wins(self, other) ==
    [self EXCEPT !.read_commands = other.read_commands,
                 !.paranoid.enabled = other.paranoid.enabled,
                 !.audit = other.audit,
                 !.dependencies = other.dependencies]

\* Config::merge
merge(self, other) ==
    [sensitive_files |-> self.sensitive_files \o other.sensitive_files,
     deny |-> self.deny \o other.deny,
     rules |-> self.rules \o other.rules,
     read_commands |-> IF other.read_commands # NoPattern THEN other.read_commands
                       ELSE self.read_commands,
     paranoid |->
        [enabled |-> IF other.paranoid.enabled THEN TRUE ELSE self.paranoid.enabled,
         extra_patterns |-> self.paranoid.extra_patterns \o other.paranoid.extra_patterns],
     git |->
        [block_destructive |-> self.git.block_destructive,
         block_add_sensitive |-> self.git.block_add_sensitive,
         force_push_allowed_branches |->
            self.git.force_push_allowed_branches \o other.git.force_push_allowed_branches],
     rm |->
        [block_outside_cwd |-> self.rm.block_outside_cwd,
         allowed_paths |-> self.rm.allowed_paths \o other.rm.allowed_paths],
     audit |->
        [enabled |-> IF other.audit.enabled THEN TRUE ELSE self.audit.enabled,
         path |-> IF other.audit.enabled /\ other.audit.path # None
                  THEN other.audit.path ELSE self.audit.path],
     dependencies |->
        [enabled |-> IF ~other.dependencies.enabled THEN FALSE
                     ELSE self.dependencies.enabled,
         patterns |-> self.dependencies.patterns \o other.dependencies.patterns,
         suggestion |-> IF other.dependencies.suggestion # None
                        THEN other.dependencies.suggestion
                        ELSE self.dependencies.suggestion]]

\* Config::load fails when a layer file that exists does not parse; the
\* project layer is looked for only when the request names a cwd
LoadFails(user, project, cwd) ==
    \/ (user.exists /\ ~user.well_formed)
    \/ (cwd # None /\ project.exists /\ ~project.well_formed)

\* Config::load
load(user, project, cwd) ==
    LET with_user == IF user.exists THEN merge(ConfigDefault, FromToml(user))
                     ELSE ConfigDefault
    IN  IF cwd # None /\ project.exists THEN merge(with_user, FromToml(project))
        ELSE with_user

(***************************************************************************)
(* Hook input (src/input.rs)                                               *)
(*                                                                         *)
(* The text on stdin is [kind, tool_name, has_tool_input, tool_input, cwd, *)
(* session_id]; kind is "json" for a JSON object, "invalid_json", "empty"  *)
(* or "unreadable" (not UTF-8).  A key that is missing or not a string is  *)
(* None.                                                                   *)
(***************************************************************************)
ToolInput(command, file_path, content, old_string, new_string) ==
    [command |-> command, file_path |-> file_path, content |-> content,
     old_string |-> old_string, new_string |-> new_string]

NoToolInput == ToolInput(None, None, None, None, None)

NoHookInput ==
    [tool_name |-> None, tool_input |-> NoToolInput, cwd |-> None, session_id |-> None]

\* A parse that takes tool_input as optional
ParseFails_optional_input(text) == text.kind # "json" \/ text.tool_name = None

\* HookInput::parse: tool_name and tool_input are required
ParseFails(text) ==
    text.kind # "json" \/ text.tool_name = None \/ ~text.has_tool_input

parse(text) ==
    [tool_name |-> text.tool_name, tool_input |-> text.tool_input, cwd |-> text.cwd,
     session_id |-> text.session_id]

as_bash(input) == input.tool_name = "Bash" /\ input.tool_input.command # None

as_read(input) == input.tool_name = "Read" /\ input.tool_input.file_path # None

as_write(input) ==
    /\ input.tool_name = "Write"
    /\ input.tool_input.file_path # None
    /\ input.tool_input.content # None

as_edit(input) ==
    /\ input.tool_name = "Edit"
    /\ input.tool_input.file_path # None
    /\ input.tool_input.old_string # None
    /\ input.tool_input.new_string # None

\* The match on tool_name in main
Analyze(input, config) ==
    IF as_bash(input) THEN analyze_bash(input.tool_input.command, config, input.cwd)
    ELSE IF as_read(input) THEN analyze_read(input.tool_input.file_path, config)
    ELSE IF as_edit(input) THEN analyze_edit(input.tool_input.file_path, config)
    ELSE IF as_write(input) THEN analyze_write(input.tool_input.file_path, config)
    ELSE Allow

(***************************************************************************)
(* Audit log (src/audit.rs)                                                *)
(***************************************************************************)
SUMMARY_MAX_LEN == 200

\* str::is_char_boundary: byte index n is where a prefix of whole characters ends
IsCharBoundary(s, n) == \E k \in 0..Len(s) : ByteLen(SubSeq(s, 1, k)) = n

\* &s[..n] for a char boundary n
BytePrefix(s, n) == SubSeq(s, 1, CHOOSE k \in 0..Len(s) : ByteLen(SubSeq(s, 1, k)) = n)

\* &s[..max_len - 3] panics when the index falls inside a character
TruncatePanics(s, max_len) ==
    ByteLen(s) > max_len /\ ~IsCharBoundary(s, max_len - 3)

truncate_string(s, max_len) ==
    IF ByteLen(s) <= max_len THEN s ELSE BytePrefix(s, max_len - 3) \o "..."

\* AuditEntry::new panics exactly when the truncation of the command does
EntryPanics(input) ==
    input.tool_input.command # None
    /\ TruncatePanics(input.tool_input.command, SUMMARY_MAX_LEN)

\* AuditEntry::new (the timestamp is left out)
AuditEntry(input, decision) ==
    [session_id |-> input.session_id,
     tool |-> input.tool_name,
     blocked |-> decision.kind = "Block",
     asked |-> decision.kind = "Ask",
     rule |-> decision.rule,
     reason |-> decision.reason,
     summary |-> IF input.tool_input.command # None
                 THEN truncate_string(input.tool_input.command, SUMMARY_MAX_LEN)
                 ELSE IF input.tool_input.file_path # None
                 THEN input.tool_input.file_path
                 ELSE "<unknown>"]

(***************************************************************************)
(* Output (src/output/response.rs)                                         *)
(***************************************************************************)
BLOCK_CAVEAT == "YOU ABSOLUTELY MUST NOT ATTEMPT TO READ THE TARGET FILE/SECRET/TOKEN VIA WORKAROUNDS. CONSULT THE USER IF YOU ARE CERTAIN THE TARGET FILE/SECRET/TOKEN NEEDS TO BE VERIFIED, ONLY AFTER EXHAUSTIVE DEBUGGING THAT RESULTS IN THIS CERTAINTY."

format_block_message(info) ==
    "BLOCKED: " \o info.reason
    \o (IF info.details # None THEN " (" \o info.details \o ")" ELSE "")
    \o "\n\n" \o BLOCK_CAVEAT

format_ask_json(info) ==
    "{\"hookSpecificOutput\":{\"hookEventName\":\"PreToolUse\",\"permissionDecision\":\"ask\",\"permissionDecisionReason\":\""
    \o info.reason
    \o (IF info.suggestion # None THEN "\\n\\nSuggestion: " \o info.suggestion ELSE "")
    \o "\"}}"

format_response(decision) ==
    IF decision.kind = "Block" THEN format_block_message(decision)
    ELSE IF decision.kind = "Ask" THEN format_ask_json(decision)
    ELSE None

(***************************************************************************)
(* The hook process (src/main.rs): one run from stdin to the exit code     *)
(***************************************************************************)
VARIABLES
    stdin,          \* the request text
    user_file,      \* ~/.claude/security-hook.toml
    project_file,   \* <cwd>/.security-hook.toml
    pc,             \* position in main
    hook_input,     \* the parsed HookInput
    config,         \* the merged configuration
    decision,       \* the Decision of the analysis, NoDecision before it
    audit_log,      \* entries appended to the audit file
    stdout,         \* texts written to stdout
    stderr,         \* texts written to stderr
    exit_code,      \* the exit code of the process, -1 while it runs
    split_pc,       \* position of one call of split_commands
    split_input,    \* its input
    split_state,    \* its locals: segments, current, the quote flags, the position
    split_segments, \* its result
    wrap_pc,        \* position of the comparison of a wrapped command with its inner one
    wrap_inner,     \* the inner command
    wrap_command,   \* the inner command inside its wrappers
    wrap_count,     \* the number of wrappers put around it
    wrap_policy,    \* the configuration both are analyzed under
    wrap_cwd,       \* the cwd both are analyzed under
    wrap_decision,  \* analyze_bash of the wrapped command
    inner_decision, \* analyze_bash of the inner command
    rm_pc,          \* position of the analysis of one recursive rm
    rm_path,        \* its path argument
    rm_cwd,         \* the cwd of the request
    rm_decision,    \* analyze_bash of "rm -rf <path>"
    rm_within,      \* is_path_within of the path, when there is a cwd
    git_pc,        \* position of the analysis of one git command
    git_args,      \* the words after "git"
    git_policy,   \* the policy the git command is analysed under
    git_decision,  \* analyze_bash of "git <args>"
    strip_pc,       \* position of one call of strip_wrappers
    strip_input,    \* its input
    strip_command,  \* the command of the current call of strip_wrappers_recursive
    strip_depth,    \* the depth of the current call
    strip_result,   \* its result
    merge_pc,       \* position of the merging of configuration layers
    merge_config,   \* the accumulated Config
    merge_layers,   \* the layers merged into it so far, as parsed from their files
    tok_pc,         \* position of the call of tokenize
    tok_input,      \* its argument
    tok_state,      \* the locals of tokenize (tokens, current, the three flags, next)
    tok_tokens      \* its result

mainVars == <<stdin, user_file, project_file, pc, hook_input, config, decision,
              audit_log, stdout, stderr, exit_code>>

splitVars == <<split_pc, split_input, split_state, split_segments>>

wrapVars == <<wrap_pc, wrap_inner, wrap_command, wrap_count, wrap_policy, wrap_cwd,
              wrap_decision, inner_decision>>

rmVars == <<rm_pc, rm_path, rm_cwd, rm_decision, rm_within>>

gitVars == <<git_pc, git_args, git_policy, git_decision>>

stripVars == <<strip_pc, strip_input, strip_command, strip_depth, strip_result>>

mergeVars == <<merge_pc, merge_config, merge_layers>>

tokVars == <<tok_pc, tok_input, tok_state, tok_tokens>>

vars == <<mainVars, splitVars, wrapVars, rmVars, gitVars, stripVars, mergeVars, tokVars>>

Running == -1

\* Exit code of a Rust process that panics
PANIC_EXIT_CODE == 101

\* ---- Requests ----
JsonRequest(tool_name, tool_input, cwd) ==
    [kind |-> "json", tool_name |-> tool_name, has_tool_input |-> TRUE,
     tool_input |-> tool_input, cwd |-> cwd, session_id |-> "s1"]

BashRequest(command, cwd) ==
    JsonRequest("Bash", ToolInput(command, None, None, None, None), cwd)

ReadRequest(file_path) ==
    JsonRequest("Read", ToolInput(None, file_path, None, None, None), None)

WriteRequest(file_path) ==
    JsonRequest("Write", ToolInput(None, file_path, "x", None, None), None)

EditRequest(file_path) ==
    JsonRequest("Edit", ToolInput(None, file_path, None, "a", "b"), None)

\* Bodies HookInput::parse rejects
MalformedRequests ==
    { [kind |-> k, tool_name |-> None, has_tool_input |-> FALSE,
       tool_input |-> NoToolInput, cwd |-> None, session_id |-> None]
        : k \in {"invalid_json", "empty", "unreadable"} }
    \cup { [kind |-> "json", tool_name |-> None, has_tool_input |-> TRUE,
            tool_input |-> ToolInput("rm -rf /", None, None, None, None),
            cwd |-> None, session_id |-> None],
           [kind |-> "json", tool_name |-> "Bash", has_tool_input |-> FALSE,
            tool_input |-> NoToolInput, cwd |-> None, session_id |-> None],
           [kind |-> "json", tool_name |-> None, has_tool_input |-> FALSE,
            tool_input |-> NoToolInput, cwd |-> "/home/u/p", session_id |-> None] }

\* n copies of s
RECURSIVE Rep(_, _)
Rep(s, n) ==
    IF n = 0 THEN ""
    ELSE IF n = 1 THEN s
    ELSE Rep(s, n \div 2) \o Rep(s, n - n \div 2)

\* Commands longer than the audit summary; "~" is a two-byte character
LongAscii == "echo " \o Rep("a", SUMMARY_MAX_LEN)

LongSplitChar == "echo " \o Rep("a", SUMMARY_MAX_LEN - 9) \o "~" \o Rep("b", 8)

LongWholeChar == "echo " \o Rep("a", SUMMARY_MAX_LEN - 10) \o "~" \o Rep("b", 8)

\* Commands that are blocked when submitted alone
BlockedAlone ==
    { "cat .env", "rm -rf /", "printenv", "env", "git push --force origin main",
      "find . -delete", "git add .env" }

Joiners == { " && ", " || ", " | ", " ; ", " & " }

\* Compound commands with a command of BlockedAlone as one segment
Compounds ==
    { "ls" \o j \o c : j \in {" && ", " | "}, c \in BlockedAlone }
    \cup { c \o j \o "ls" : j \in {" ; ", " || "}, c \in BlockedAlone }
    \cup { "ls" \o j \o "printenv" \o j \o "pwd" : j \in Joiners }

BashCommands ==
    BlockedAlone \cup Compounds \cup
    { "ls -la", "git status", "cat README.md", "cat .env.example", "sudo cat ~/.ssh/id_rsa",
      "printenv | xargs rm", "cat .env | xargs rm", "docker run x", "docker ps",
      "echo password", "git add -A", "git add .env.sample config.yml",
      "rm -rf build", "rm -rf ../", "rm -rf ../../..", "rm -rf /home/user", "rm -rf /etc/x",
      "rm -rf /usr/lib", "rm -r /var", "rm -rf a/../../b", "rm file.txt",
      "echo 'a && b' ; rm -rf /proc",
      LongAscii, LongSplitChar, LongWholeChar }

Cwds == { None, "/home/u/p" }

Requests ==
    { BashRequest(c, d) : c \in BashCommands, d \in Cwds }
    \cup { ReadRequest(f) : f \in { ".env", ".env.example", ".env.sample", ".env.template",
                                    ".env.dist", "src/main.rs", "/home/u/.ssh/id_rsa",
                                    "notes/password.txt", "secret/.env" } }
    \cup { WriteRequest(f) : f \in { "Cargo.toml", "src/lib.rs", "secret/x" } }
    \cup { EditRequest(f) : f \in { "package.json", "README.md" } }
    \cup { JsonRequest("Glob", ToolInput(None, None, None, None, None), None),
           JsonRequest("Bash", ToolInput(None, "x", None, None, None), None),
           JsonRequest("Read", ToolInput(LongSplitChar, None, None, None, None), None) }
    \cup MalformedRequests

\* ---- Policies ----
AUDIT_PATH == "/tmp/audit.log"

\* A layer that turns the audit log on
AuditLayer ==
    LayerFile({"audit.enabled", "audit.path"},
              [ConfigDefault EXCEPT !.audit = [enabled |-> TRUE, path |-> AUDIT_PATH]])

\* A layer that turns paranoid mode on, with one extra pattern
ParanoidLayer ==
    LayerFile({"paranoid.enabled", "paranoid.extra_patterns"},
              [ConfigDefault EXCEPT
                  !.paranoid = [enabled |-> TRUE,
                                extra_patterns |-> <<Re1("password", "", {"password"}, "")>>]])

\* A layer with deny rules and custom rules of its own
RulesLayer ==
    LayerFile({"deny", "rules"},
              [ConfigDefault EXCEPT
                  !.deny = << DenyRule("Read", Re1("secret", "", {"secret"}, ""), "No secrets"),
                              DenyRule("Read", Re1("\\.env", "", {".env"}, ""), "No env files"),
                              DenyRule("Bash", Re1("xargs", "", {"xargs"}, ""), "No xargs"),
                              DenyRule("Write", Re1("Cargo", "", {"Cargo"}, ""),
                                       "No manifest writes") >>,
                  !.rules = << CustomRule("warn-docker", "Bash",
                                          Re1("docker", "", {"docker"}, ""), "warn",
                                          "Docker is discouraged"),
                               CustomRule("allow-docker-ps", "Bash",
                                          Re1("docker ps", "", {"docker ps"}, ""), "allow", None),
                               CustomRule("no-docker", "Bash",
                                          Re1("docker", "", {"docker"}, ""), "block",
                                          "Docker is not allowed"),
                               CustomRule("no-run", "Bash",
                                          Re1("run", "", {"run"}, ""), "block", None),
                               CustomRule("allow-push", "Bash",
                                          Re1("git push", "", {"git push"}, ""), "allow",
                                          None),
                               CustomRule("no-dotfiles", "Read",
                                          Re1("^\\.", "^", {"."}, ""), "block", "No dotfiles"),
                               CustomRule("no-package-edit", "Edit",
                                          Re1("package", "", {"package"}, ""), "block", None),
                               CustomRule("broken", "Bash", BadRe("("), "block", None) >>])

\* A layer that turns dependency protection off
DepsOffLayer ==
    LayerFile({"dependencies.enabled"},
              [ConfigDefault EXCEPT !.dependencies.enabled = FALSE])

\* A layer with a read-commands regex and a dependency suggestion of its own
ScalarsLayer ==
    LayerFile({"read_commands", "dependencies.suggestion"},
              [ConfigDefault EXCEPT
                  !.read_commands = Re1("\\bcat\\b", "\\b", {"cat"}, "\\b"),
                  !.dependencies.suggestion = "Use cargo add"])

\* A layer whose sensitive pattern does not compile
BadPatternLayer ==
    LayerFile({"sensitive_files"},
              [ConfigDefault EXCEPT !.sensitive_files = <<BadRe("[")>>])

UserFiles ==
    { NoFile, MalformedFile, AuditLayer, ParanoidLayer, RulesLayer, BadPatternLayer,
      DepsOffLayer, ScalarsLayer }

ProjectFiles == { NoFile, MalformedFile, AuditLayer }

TypeOK ==
    /\ pc \in {"idle", "read_stdin", "parse", "load", "compile", "analyze", "audit",
               "output", "done"}
    /\ exit_code \in {Running, 0, 2, PANIC_EXIT_CODE}
    /\ decision.kind \in {"None", "Allow", "Block", "Ask"}
    /\ split_pc \in {"idle", "typing", "splitting", "done"}
    /\ wrap_pc \in {"idle", "wrapping", "done"}
    /\ rm_pc \in {"idle", "building", "done"}
    /\ git_pc \in {"idle", "building", "done"}
    /\ tok_pc \in {"idle", "typing", "tokenizing", "done"}
    /\ git_decision.kind \in {"None", "Allow", "Block", "Ask"}

\* No hook process runs
MainIdle ==
    /\ stdin = JsonRequest("Glob", NoToolInput, None)
    /\ user_file = NoFile
    /\ project_file = NoFile
    /\ pc = "idle"
    /\ hook_input = NoHookInput
    /\ config = ConfigDefault
    /\ decision = NoDecision
    /\ audit_log = <<>>
    /\ stdout = <<>>
    /\ stderr = <<>>
    /\ exit_code = Running

SplitIdle ==
    /\ split_pc = "idle"
    /\ split_input = ""
    /\ split_state = SplitInit
    /\ split_segments = <<>>

WrapIdle ==
    /\ wrap_pc = "idle"
    /\ wrap_inner = ""
    /\ wrap_command = ""
    /\ wrap_count = 0
    /\ wrap_policy = ConfigDefault
    /\ wrap_cwd = None
    /\ wrap_decision = NoDecision
    /\ inner_decision = NoDecision

RmIdle ==
    /\ rm_pc = "idle"
    /\ rm_path = ""
    /\ rm_cwd = None
    /\ rm_decision = NoDecision
    /\ rm_within = FALSE

GitIdle ==
    /\ git_pc = "idle"
    /\ git_args = <<>>
    /\ git_policy = ConfigDefault
    /\ git_decision = NoDecision

StripIdle ==
    /\ strip_pc = "idle"
    /\ strip_input = ""
    /\ strip_command = ""
    /\ strip_depth = 0
    /\ strip_result = None

MergeIdle ==
    /\ merge_pc = "idle"
    /\ merge_config = ConfigDefault
    /\ merge_layers = <<>>

TokIdle ==
    /\ tok_pc = "idle"
    /\ tok_input = ""
    /\ tok_state = TokenizeInit
    /\ tok_tokens = <<>>

Init ==
    /\ stdin \in Requests
    /\ user_file \in UserFiles
    /\ project_file \in ProjectFiles
    /\ pc = "read_stdin"
    /\ hook_input = NoHookInput
    /\ config = ConfigDefault
    /\ decision = NoDecision
    /\ audit_log = <<>>
    /\ stdout = <<>>
    /\ stderr = <<>>
    /\ exit_code = Running
    /\ SplitIdle
    /\ WrapIdle
    /\ RmIdle
    /\ GitIdle
    /\ StripIdle
    /\ MergeIdle
    /\ TokIdle

\* return ExitCode::SUCCESS / ExitCode::from(code)
Exit(code) == pc' = "done" /\ exit_code' = code

\* main: io::stdin().read_to_string
ReadStdin ==
    /\ pc = "read_stdin"
    /\ IF stdin.kind = "unreadable" THEN Exit(0)
       ELSE pc' = "parse" /\ UNCHANGED exit_code
    /\ UNCHANGED <<stdin, user_file, project_file, hook_input, config, decision,
                   audit_log, stdout, stderr>>
    /\ UNCHANGED <<splitVars, wrapVars, rmVars,
                   gitVars, stripVars, mergeVars, tokVars>>

\* main: HookInput::parse
ParseInput ==
    /\ pc = "parse"
    /\ IF ParseFails(stdin) THEN Exit(0) /\ UNCHANGED hook_input
       ELSE pc' = "load" /\ hook_input' = parse(stdin) /\ UNCHANGED exit_code
    /\ UNCHANGED <<stdin, user_file, project_file, config, decision, audit_log,
                   stdout, stderr>>
    /\ UNCHANGED <<splitVars, wrapVars, rmVars,
                   gitVars, stripVars, mergeVars, tokVars>>

\* main: Config::load
LoadConfig ==
    /\ pc = "load"
    /\ IF LoadFails(user_file, project_file, hook_input.cwd)
       THEN Exit(0) /\ UNCHANGED config
       ELSE /\ pc' = "compile"
            /\ config' = load(user_file, project_file, hook_input.cwd)
            /\ UNCHANGED exit_code
    /\ UNCHANGED <<stdin, user_file, project_file, hook_input, decision, audit_log,
                   stdout, stderr>>
    /\ UNCHANGED <<splitVars, wrapVars, rmVars,
                   gitVars, stripVars, mergeVars, tokVars>>

\* main: config.compile
CompileConfig ==
    /\ pc = "compile"
    /\ IF CompileFails(config)
       THEN Exit(0) /\ stderr' = Append(stderr, "Config error")
       ELSE pc' = "analyze" /\ UNCHANGED <<exit_code, stderr>>
    /\ UNCHANGED <<stdin, user_file, project_file, hook_input, config, decision,
                   audit_log, stdout>>
    /\ UNCHANGED <<splitVars, wrapVars, rmVars,
                   gitVars, stripVars, mergeVars, tokVars>>

\* main: the match on tool_name
AnalyzeRequest ==
    /\ pc = "analyze"
    /\ decision' = Analyze(hook_input, config)
    /\ pc' = "audit"
    /\ UNCHANGED <<stdin, user_file, project_file, hook_input, config, audit_log,
                   stdout, stderr, exit_code>>
    /\ UNCHANGED <<splitVars, wrapVars, rmVars,
                   gitVars, stripVars, mergeVars, tokVars>>

\* The audit step of a hook that gives up when the log cannot be opened or
\* written
AuditDecision_fail_closed ==
    /\ pc = "audit"
    /\ \E opened \in BOOLEAN, written \in BOOLEAN :
          IF config.audit.enabled /\ config.audit.path # None
          THEN IF opened /\ written
               THEN /\ pc' = "output"
                    /\ audit_log' = Append(audit_log, AuditEntry(hook_input, decision))
                    /\ UNCHANGED <<exit_code, stderr>>
               ELSE /\ Exit(2)
                    /\ stderr' = Append(stderr, "audit log unavailable")
                    /\ UNCHANGED audit_log
          ELSE pc' = "output" /\ UNCHANGED <<audit_log, exit_code, stderr>>
    /\ UNCHANGED <<stdin, user_file, project_file, hook_input, config, decision, stdout>>
    /\ UNCHANGED <<splitVars, wrapVars, rmVars,
                   gitVars, stripVars, mergeVars, tokVars>>

\* main: audit logging.  Opening the file and writing to it can fail, and
\* both failures are ignored; a panic while the entry is built ends the
\* process.
AuditDecision ==
    /\ pc = "audit"
    /\ \E opened \in BOOLEAN, written \in BOOLEAN :
          IF config.audit.enabled /\ config.audit.path # None /\ opened
          THEN IF EntryPanics(hook_input)
               THEN /\ Exit(PANIC_EXIT_CODE)
                    /\ stderr' = Append(stderr, "thread 'main' panicked")
                    /\ UNCHANGED audit_log
               ELSE /\ pc' = "output"
                    /\ audit_log' = IF written
                                    THEN Append(audit_log, AuditEntry(hook_input, decision))
                                    ELSE audit_log
                    /\ UNCHANGED <<exit_code, stderr>>
          ELSE pc' = "output" /\ UNCHANGED <<audit_log, exit_code, stderr>>
    /\ UNCHANGED <<stdin, user_file, project_file, hook_input, config, decision, stdout>>
    /\ UNCHANGED <<splitVars, wrapVars, rmVars,
                   gitVars, stripVars, mergeVars, tokVars>>

\* main: the match on the decision
EmitResult ==
    /\ pc = "output"
    /\ IF decision.kind = "Block"
       THEN /\ stderr' = Append(stderr, format_response(decision))
            /\ Exit(2)
            /\ UNCHANGED stdout
       ELSE IF decision.kind = "Ask"
       THEN /\ stdout' = stdout \o <<format_response(decision), "\n">>
            /\ Exit(0)
            /\ UNCHANGED stderr
       ELSE Exit(0) /\ UNCHANGED <<stdout, stderr>>
    /\ UNCHANGED <<stdin, user_file, project_file, hook_input, config, decision, audit_log>>
    /\ UNCHANGED <<splitVars, wrapVars, rmVars,
                   gitVars, stripVars, mergeVars, tokVars>>

Next ==
    \/ ReadStdin
    \/ ParseInput
    \/ LoadConfig
    \/ CompileConfig
    \/ AnalyzeRequest
    \/ AuditDecision
    \/ EmitResult

Spec == Init /\ [][Next]_vars

(***************************************************************************)
(* One call of split_commands, character by character                      *)
(***************************************************************************)
MaxLen == 4

SplitAlphabet == {"a", " ", "&", "|", ";", "'", "\"", "\\"}

InitSplit ==
    /\ MainIdle
    /\ split_pc = "typing"
    /\ split_input = ""
    /\ split_state = SplitInit
    /\ split_segments = <<>>
    /\ WrapIdle
    /\ RmIdle
    /\ GitIdle
    /\ StripIdle
    /\ MergeIdle
    /\ TokIdle

\* The caller's text grows by one character
TypeChar ==
    /\ split_pc = "typing"
    /\ Len(split_input) < MaxLen
    /\ \E c \in SplitAlphabet : split_input' = split_input \o c
    /\ UNCHANGED <<split_pc, split_state, split_segments>>
    /\ UNCHANGED <<mainVars, wrapVars, rmVars,
                   gitVars, stripVars, mergeVars, tokVars>>

\* split_commands is called
StartSplit ==
    /\ split_pc = "typing"
    /\ split_pc' = "splitting"
    /\ split_state' = SplitInit
    /\ UNCHANGED <<split_input, split_segments>>
    /\ UNCHANGED <<mainVars, wrapVars, rmVars,
                   gitVars, stripVars, mergeVars, tokVars>>

\* One pass of the while loop
SplitChar ==
    /\ split_pc = "splitting"
    /\ split_state.next <= Len(split_input)
    /\ split_state' = SplitStep(split_input, split_state.next, split_state)
    /\ UNCHANGED <<split_pc, split_input, split_segments>>
    /\ UNCHANGED <<mainVars, wrapVars, rmVars,
                   gitVars, stripVars, mergeVars, tokVars>>

\* The loop has ended: the final segment is pushed and the list returned
FinishSplit ==
    /\ split_pc = "splitting"
    /\ split_state.next > Len(split_input)
    /\ split_segments' = SplitFinish(split_state)
    /\ split_pc' = "done"
    /\ UNCHANGED <<split_input, split_state>>
    /\ UNCHANGED <<mainVars, wrapVars, rmVars,
                   gitVars, stripVars, mergeVars, tokVars>>

NextSplit ==
    \/ TypeChar
    \/ StartSplit
    \/ SplitChar
    \/ FinishSplit

SpecSplit == InitSplit /\ [][NextSplit]_vars

(***************************************************************************)
(* A command inside wrappers, analyzed next to the command alone           *)
(***************************************************************************)
MaxWrappers == 2

\* Wrappers written in front of a command, without and with options
PrefixWrappers ==
    { "sudo ", "sudo -u root ", "doas ", "env A=1 ", "nohup ", "nice -n 5 ",
      "ionice -c 3 ", "timeout 5 ", "time ", "strace ", "ltrace ", "watch ",
      "watch -n 1 " }

\* Commands whose first word has an analyzer
InnerCommands ==
    { "rm -rf /", "rm -rf \"/etc x\"", "git push --force origin main", "find . -delete" }

WrapPolicies == { ConfigDefault, load(ParanoidLayer, NoFile, None) }

InitWrap ==
    /\ MainIdle
    /\ SplitIdle
    /\ wrap_pc = "wrapping"
    /\ wrap_inner \in InnerCommands
    /\ wrap_command = wrap_inner
    /\ wrap_count = 0
    /\ wrap_policy \in WrapPolicies
    /\ wrap_cwd \in Cwds
    /\ wrap_decision = NoDecision
    /\ inner_decision = NoDecision
    /\ RmIdle
    /\ GitIdle
    /\ StripIdle
    /\ MergeIdle
    /\ TokIdle

\* One more wrapper in front of the command
Wrap ==
    /\ wrap_pc = "wrapping"
    /\ wrap_count < MaxWrappers
    /\ \E w \in PrefixWrappers : wrap_command' = w \o wrap_command
    /\ wrap_count' = wrap_count + 1
    /\ UNCHANGED <<wrap_pc, wrap_inner, wrap_policy, wrap_cwd, wrap_decision,
                   inner_decision>>
    /\ UNCHANGED <<mainVars, splitVars, rmVars,
                   gitVars, stripVars, mergeVars, tokVars>>

\* The command becomes the payload of a shell -c, inside quotes it does not contain
WrapShellC ==
    /\ wrap_pc = "wrapping"
    /\ wrap_count < MaxWrappers
    /\ \E shell \in SHELL_COMMANDS :
          LET quote == IF Contains(wrap_command, "'") THEN "\"" ELSE "'"
          IN  /\ ~Contains(wrap_command, quote)
              /\ wrap_command' = shell \o " -c " \o quote \o wrap_command \o quote
    /\ wrap_count' = wrap_count + 1
    /\ UNCHANGED <<wrap_pc, wrap_inner, wrap_policy, wrap_cwd, wrap_decision,
                   inner_decision>>
    /\ UNCHANGED <<mainVars, splitVars, rmVars,
                   gitVars, stripVars, mergeVars, tokVars>>

\* Both commands are analyzed as Bash requests
DecideWrapped ==
    /\ wrap_pc = "wrapping"
    /\ wrap_decision' = analyze_bash(wrap_command, wrap_policy, wrap_cwd)
    /\ inner_decision' = analyze_bash(wrap_inner, wrap_policy, wrap_cwd)
    /\ wrap_pc' = "done"
    /\ UNCHANGED <<wrap_inner, wrap_command, wrap_count, wrap_policy, wrap_cwd>>
    /\ UNCHANGED <<mainVars, splitVars, rmVars,
                   gitVars, stripVars, mergeVars, tokVars>>

NextWrap ==
    \/ Wrap
    \/ WrapShellC
    \/ DecideWrapped

SpecWrap == InitWrap /\ [][NextWrap]_vars

(***************************************************************************)
(* One recursive rm, its path argument built component by component        *)
(***************************************************************************)
MaxComponents == 3

PathComponents == { "home", "etc", "usr", "u", "user", "p", "p-old", "tmp", "..", "." }

InitRm ==
    /\ MainIdle
    /\ SplitIdle
    /\ WrapIdle
    /\ GitIdle
    /\ StripIdle
    /\ MergeIdle
    /\ TokIdle
    /\ rm_pc = "building"
    /\ rm_path \in {"", "/"}
    /\ rm_cwd \in Cwds
    /\ rm_decision = NoDecision
    /\ rm_within = FALSE

\* The number of components of the path built so far
RmComponents ==
    IF rm_path \in {"", "/"} THEN 0
    ELSE Cardinality({i \in 2..Len(rm_path) : Ch(rm_path, i) = "/"}) + 1

\* One more component at the end of the path
AppendComponent ==
    /\ rm_pc = "building"
    /\ RmComponents < MaxComponents
    /\ \E c \in PathComponents :
          rm_path' = IF rm_path \in {"", "/"} THEN rm_path \o c
                     ELSE rm_path \o "/" \o c
    /\ UNCHANGED <<rm_pc, rm_cwd, rm_decision, rm_within>>
    /\ UNCHANGED <<mainVars, splitVars, wrapVars,
                   gitVars, stripVars, mergeVars, tokVars>>

\* The Bash request "rm -rf <path>" is analyzed under the default policy
RunRm ==
    /\ rm_pc = "building"
    /\ rm_path # ""
    /\ rm_decision' = analyze_bash("rm -rf " \o rm_path, ConfigDefault, rm_cwd)
    /\ rm_within' = (rm_cwd # None
                     /\ is_path_within(rm_path, rm_cwd, ConfigDefault.rm.allowed_paths))
    /\ rm_pc' = "done"
    /\ UNCHANGED <<rm_path, rm_cwd>>
    /\ UNCHANGED <<mainVars, splitVars, wrapVars,
                   gitVars, stripVars, mergeVars, tokVars>>

NextRm ==
    \/ AppendComponent
    \/ RunRm

SpecRm == InitRm /\ [][NextRm]_vars

(***************************************************************************)
(* git commands, built word by word and analyzed as Bash requests under a  *)
(* policy with git settings of its own                                     *)
(***************************************************************************)
MaxGitArgs == 4

GitSubcommands == {"push", "add", "clean", "checkout", "reset", "branch", "stash"}

\* The words that may follow a subcommand
GitWords(subcommand) ==
    IF subcommand = "push"
    THEN {"-f", "--force-with-lease=x", "-u", "origin", "main", "feature"}
    ELSE IF subcommand = "clean"
    THEN {"-f", "--force", "-d", "-X", "-fd", "-df"}
    ELSE IF subcommand = "checkout" THEN {"--", "."}
    ELSE IF subcommand = "reset" THEN {"--hard", "HEAD"}
    ELSE IF subcommand = "branch" THEN {"-D", "feature"}
    ELSE IF subcommand = "stash" THEN {"drop", "clear"}
    ELSE {".env", "-A", "src/main.rs", "id_rsa", "-.env", "A=.env"}

\* The defaults with one git setting changed
GitPolicies ==
    { ConfigDefault,
      [ConfigDefault EXCEPT !.git.force_push_allowed_branches = <<"main">>],
      [ConfigDefault EXCEPT !.git.block_add_sensitive = FALSE],
      [ConfigDefault EXCEPT !.git.block_destructive = FALSE] }

InitGit ==
    /\ MainIdle
    /\ SplitIdle
    /\ WrapIdle
    /\ RmIdle
    /\ git_pc = "building"
    /\ git_args \in { <<subcommand>> : subcommand \in GitSubcommands }
    /\ git_policy \in GitPolicies
    /\ git_decision = NoDecision
    /\ StripIdle
    /\ MergeIdle
    /\ TokIdle

\* One more word at the end of the command
AppendGitArg ==
    /\ git_pc = "building"
    /\ Len(git_args) - 1 < MaxGitArgs
    /\ \E w \in GitWords(git_args[1]) : git_args' = Append(git_args, w)
    /\ UNCHANGED <<git_pc, git_policy, git_decision>>
    /\ UNCHANGED <<mainVars, splitVars, wrapVars, rmVars, stripVars, mergeVars, tokVars>>

\* The Bash request "git <subcommand> <args>" is analyzed
RunGit ==
    /\ git_pc = "building"
    /\ git_decision' = analyze_bash(Join(<<"git">> \o git_args, " "), git_policy, None)
    /\ git_pc' = "done"
    /\ UNCHANGED <<git_args, git_policy>>
    /\ UNCHANGED <<mainVars, splitVars, wrapVars, rmVars, stripVars, mergeVars, tokVars>>

NextGit ==
    \/ AppendGitArg
    \/ RunGit

SpecGit == InitGit /\ [][NextGit]_vars

(***************************************************************************)
(* One run of strip_wrappers, call by call: each step is one call of       *)
(* strip_wrappers_recursive, which returns or calls itself at depth + 1    *)
(***************************************************************************)
MaxLayers == 6

\* Wrapper layers written in front of a command
StripLayers == { "sudo ", "env A=1 ", "sh -c " }

StripInners == { "ls", "rm -rf /" }

\* The outcome of a call: it returns a text
Return(text) == [call |-> FALSE, text |-> text]

\* The outcome of a call: it calls strip_wrappers_recursive(text, depth + 1)
Recurse(text) == [call |-> TRUE, text |-> text]

\* handle_shell_c, up to its recursive call
ShellCOutcome(words, payload) ==
    IF payload # None THEN Recurse(payload) ELSE Return(Join(words, " "))

\* handle_wrapper, up to its recursive call
WrapperOutcome(words, start) ==
    IF Len(words) = 0 \/ start > Len(words) THEN Return("")
    ELSE Recurse(Join(SubSeq(words, start, Len(words)), " "))

\* strip_wrappers_recursive after the depth check, up to its recursive call
TokensOutcome(command, tokens, idx) ==
    IF idx > Len(tokens) THEN Return(command)
    ELSE IF tokens[idx].type # "Word" THEN Return(command)
    ELSE IF tokens[idx].text \in SHELL_COMMANDS
    THEN ShellCOutcome(WordsOf(SubSeq(tokens, idx, Len(tokens))),
                       ShellPayload(WordsOf(SubSeq(tokens, idx, Len(tokens))), FALSE))
    ELSE IF tokens[idx].text \in WRAPPER_COMMANDS
    THEN WrapperOutcome(WordsOf(SubSeq(tokens, idx, Len(tokens))),
                        SkipWrapperOptions(WordsOf(SubSeq(tokens, idx, Len(tokens)))))
    ELSE Return(command)

\* One call of strip_wrappers_recursive, up to its recursive call
CallOutcome(command, depth) ==
    IF depth >= MAX_STRIP_DEPTH THEN Return(command)
    ELSE TokensOutcome(command, tokenize(command), SkipAssignments(tokenize(command), 1))

InitStrip ==
    /\ MainIdle
    /\ SplitIdle
    /\ WrapIdle
    /\ RmIdle
    /\ GitIdle
    /\ strip_pc = "building"
    /\ strip_input \in StripInners
    /\ strip_command = ""
    /\ strip_depth = 0
    /\ strip_result = None
    /\ MergeIdle
    /\ TokIdle

\* The number of layers around the inner command
LayerCount ==
    Cardinality({i \in 1..Len(strip_input) :
                    \E w \in StripLayers :
                        StartsWith(SubSeq(strip_input, i, Len(strip_input)), w)})

\* One more layer in front of the command
AddLayer ==
    /\ strip_pc = "building"
    /\ LayerCount < MaxLayers
    /\ \E w \in StripLayers : strip_input' = w \o strip_input
    /\ UNCHANGED <<strip_pc, strip_command, strip_depth, strip_result>>
    /\ UNCHANGED <<mainVars, splitVars, wrapVars, rmVars, gitVars, mergeVars, tokVars>>

\* strip_wrappers: the call at depth 0
StartStrip ==
    /\ strip_pc = "building"
    /\ strip_pc' = "calling"
    /\ strip_command' = strip_input
    /\ strip_depth' = 0
    /\ UNCHANGED <<strip_input, strip_result>>
    /\ UNCHANGED <<mainVars, splitVars, wrapVars, rmVars, gitVars, mergeVars, tokVars>>

\* One call of strip_wrappers_recursive
StripCall ==
    /\ strip_pc = "calling"
    /\ LET outcome == CallOutcome(strip_command, strip_depth) IN
       IF outcome.call
       THEN /\ strip_command' = outcome.text
            /\ strip_depth' = strip_depth + 1
            /\ UNCHANGED <<strip_pc, strip_result>>
       ELSE /\ strip_result' = outcome.text
            /\ strip_pc' = "done"
            /\ UNCHANGED <<strip_command, strip_depth>>
    /\ UNCHANGED strip_input
    /\ UNCHANGED <<mainVars, splitVars, wrapVars, rmVars, gitVars, mergeVars, tokVars>>

NextStrip ==
    \/ AddLayer
    \/ StartStrip
    \/ StripCall

SpecStrip == InitStrip /\ [][NextStrip]_vars

(***************************************************************************)
(* One call of tokenize, character by character                            *)
(***************************************************************************)
MaxTokLen == 4

TokAlphabet == {"a", " ", "\\", "'", "\"", ">", "&"}

InitTok ==
    /\ MainIdle /\ SplitIdle /\ WrapIdle /\ RmIdle /\ GitIdle /\ StripIdle /\ MergeIdle
    /\ tok_pc = "typing"
    /\ tok_input = ""
    /\ tok_state = TokenizeInit
    /\ tok_tokens = <<>>

\* The caller's text grows by one character
TypeTokChar ==
    /\ tok_pc = "typing"
    /\ Len(tok_input) < MaxTokLen
    /\ \E c \in TokAlphabet : tok_input' = tok_input \o c
    /\ UNCHANGED <<tok_pc, tok_state, tok_tokens>>
    /\ UNCHANGED <<mainVars, splitVars, wrapVars, rmVars, gitVars, stripVars, mergeVars>>

\* tokenize is called
StartTokenize ==
    /\ tok_pc = "typing"
    /\ tok_pc' = "tokenizing"
    /\ tok_state' = TokenizeInit
    /\ UNCHANGED <<tok_input, tok_tokens>>
    /\ UNCHANGED <<mainVars, splitVars, wrapVars, rmVars, gitVars, stripVars, mergeVars>>

\* One pass of the while loop
TokenizeChar ==
    /\ tok_pc = "tokenizing"
    /\ tok_state.next <= Len(tok_input)
    /\ tok_state' = TokenizeStep(tok_input, tok_state.next, tok_state)
    /\ UNCHANGED <<tok_pc, tok_input, tok_tokens>>
    /\ UNCHANGED <<mainVars, splitVars, wrapVars, rmVars, gitVars, stripVars, mergeVars>>

\* The loop has ended: the last word is pushed and the tokens returned
FinishTokenize ==
    /\ tok_pc = "tokenizing"
    /\ tok_state.next > Len(tok_input)
    /\ tok_tokens' = FlushWord(tok_state).tokens
    /\ tok_pc' = "done"
    /\ UNCHANGED <<tok_input, tok_state>>
    /\ UNCHANGED <<mainVars, splitVars, wrapVars, rmVars, gitVars, stripVars, mergeVars>>

NextTok ==
    \/ TypeTokChar
    \/ StartTokenize
    \/ TokenizeChar
    \/ FinishTokenize

SpecTok == InitTok /\ [][NextTok]_vars

(***************************************************************************)
(* Merging of configuration layers (Config::load, Config::merge)           *)
(***************************************************************************)
MaxMergeLayers == 3

\* A layer that writes every boolean switch with its "off" position for
\* paranoid mode and the audit log and "on" for dependency protection
SwitchBackLayer ==
    LayerFile({"paranoid.enabled", "audit.enabled", "dependencies.enabled"},
              ConfigDefault)

\* A layer that writes false for the three flags of git and rm
FlagsOffLayer ==
    LayerFile({"git.block_destructive", "git.block_add_sensitive", "rm.block_outside_cwd"},
              [ConfigDefault EXCEPT !.git.block_destructive = FALSE,
                                    !.git.block_add_sensitive = FALSE,
                                    !.rm.block_outside_cwd = FALSE])

\* The files toml::from_str accepts
MergeFiles ==
    { AuditLayer, ParanoidLayer, RulesLayer, DepsOffLayer, ScalarsLayer, SwitchBackLayer,
      FlagsOffLayer }

InitMerge ==
    /\ MainIdle /\ SplitIdle /\ WrapIdle /\ RmIdle /\ GitIdle /\ StripIdle /\ TokIdle
    /\ merge_pc = "merging"
    /\ merge_config = ConfigDefault
    /\ merge_layers = <<>>

\* Config::load: config.merge(layer) for one more parsed file
MergeLayer ==
    /\ merge_pc = "merging"
    /\ Len(merge_layers) < MaxMergeLayers
    /\ \E file \in MergeFiles :
          /\ merge_config' = merge(merge_config, FromToml(file))
          /\ merge_layers' = Append(merge_layers, file)
    /\ UNCHANGED merge_pc
    /\ UNCHANGED <<mainVars, splitVars, wrapVars, rmVars, gitVars, stripVars, tokVars>>

\* Config::load: Ok(config)
FinishMerge ==
    /\ merge_pc = "merging"
    /\ merge_pc' = "done"
    /\ UNCHANGED <<merge_config, merge_layers>>
    /\ UNCHANGED <<mainVars, splitVars, wrapVars, rmVars, gitVars, stripVars, tokVars>>

NextMerge ==
    \/ MergeLayer
    \/ FinishMerge

SpecMerge == InitMerge /\ [][NextMerge]_vars

(***************************************************************************)
(* Properties                                                              *)
(***************************************************************************)
\* The analysis of the request has run
Analyzed == pc \in {"audit", "output", "done"} /\ decision # NoDecision

\* The verdicts of the stages of a Bash request, in the order of the claim
BashStages(command, policy, cwd) ==
    << DenyRules("Bash", command, policy),
       CustomStage("Bash", command, policy),
       ParanoidStage(command, policy),
       ReadStage(command, policy),
       GitAddStage(command, policy),
       analyze_command(command, policy, cwd) >>

\* The verdicts of the stages of a Read request, in the order of the claim
ReadStages(path, policy) ==
    << DenyRules("Read", path, policy),
       CustomStage("Read", path, policy),
       ParanoidFile(matches_paranoid(policy, path)),
       check_sensitive_path(path, policy) >>

\* The index of the earliest stage whose verdict is not Allow, 0 if there is none
FirstStage(stages) == FirstIndex({k \in 1..Len(stages) : stages[k] # Allow})

EarliestVerdict(stages) ==
    IF FirstStage(stages) = 0 THEN Allow ELSE stages[FirstStage(stages)]

\* The deny rules for the tool that match the content
DenyHits(tool, content, policy) ==
    {k \in 1..Len(policy.deny) :
        policy.deny[k].tool = tool /\ is_match(policy.deny[k].pattern, content)}

\* The custom rules for the tool that decide: the pattern compiles and
\* matches and the action is allow or block
CustomHits(tool, content, policy) ==
    {k \in 1..Len(policy.rules) :
        /\ policy.rules[k].tool = tool
        /\ policy.rules[k].pattern.valid
        /\ is_match(policy.rules[k].pattern, content)
        /\ policy.rules[k].action \in {"allow", "block"}}

\* The segments of the command that its analyzer blocks
BlockedSegments(command, policy, cwd) ==
    {k \in 1..Len(split_commands(command)) :
        is_blocked(AnalyzeSegment(split_commands(command)[k], policy, cwd))}

\* Inside the stage that decides, the earliest rule or segment decides
EarliestInStage(tool, content, policy, cwd, stage) ==
    /\ stage = 1 =>
          decision.reason = policy.deny[FirstIndex(DenyHits(tool, content, policy))].reason
    /\ stage = 2 =>
          /\ policy.rules[FirstIndex(CustomHits(tool, content, policy))].action = "block"
          /\ decision.rule = policy.rules[FirstIndex(CustomHits(tool, content, policy))].name
    /\ (tool = "Bash" /\ stage = 6) =>
          decision = AnalyzeSegment(
                        split_commands(content)[FirstIndex(BlockedSegments(content, policy, cwd))],
                        policy, cwd)

C1_Bash ==
    (Analyzed /\ as_bash(hook_input)) =>
        /\ decision = EarliestVerdict(BashStages(hook_input.tool_input.command, config,
                                                 hook_input.cwd))
        /\ EarliestInStage("Bash", hook_input.tool_input.command, config, hook_input.cwd,
                           FirstStage(BashStages(hook_input.tool_input.command, config,
                                                 hook_input.cwd)))

C1_Read ==
    (Analyzed /\ as_read(hook_input)) =>
        /\ decision = EarliestVerdict(ReadStages(hook_input.tool_input.file_path, config))
        /\ EarliestInStage("Read", hook_input.tool_input.file_path, config, hook_input.cwd,
                           FirstStage(ReadStages(hook_input.tool_input.file_path, config)))

\* C1: the verdict of a Bash request is that of the earliest stage, in the
\* order deny rules, custom rules, paranoid scan, read-like check, git-add
\* check, per-command analyzers, whose verdict is not Allow, and inside that
\* stage the earliest matching rule or blocked segment decides; the same
\* holds for a Read request with the order deny rules, custom rules,
\* paranoid scan, sensitive-path matcher.
C1_FirstStageWins == C1_Bash /\ C1_Read

\* C1 witness: a Bash request that the paranoid scan, the read-like check and
\* an analyzer would each block has got the verdict of the paranoid scan
C1_Witness ==
    /\ pc = "done"
    /\ as_bash(hook_input)
    /\ is_blocked(ParanoidStage(hook_input.tool_input.command, config))
    /\ is_blocked(ReadStage(hook_input.tool_input.command, config))
    /\ is_blocked(analyze_command(hook_input.tool_input.command, config, hook_input.cwd))
    /\ decision.rule = "paranoid.sensitive_mention"
    /\ exit_code = 2

\* C2: wrapper transparency: a command whose first word has an analyzer,
\* put inside at most MaxWrappers recognized wrappers (with or without
\* options, including sh -c payloads), gets the same kind of verdict as the
\* command alone, under the same policy and cwd.
C2_WrapperTransparency ==
    wrap_pc = "done" => wrap_decision.kind = inner_decision.kind

\* The segments of the command of the request
RequestSegments == split_commands(hook_input.tool_input.command)

\* C3: chained commands: when a segment of a compound Bash command is
\* blocked if submitted alone under the same policy and cwd, the compound
\* command is blocked too.
C3_ChainedBlocked ==
    (Analyzed /\ as_bash(hook_input) /\ Len(RequestSegments) >= 2) =>
        \A k \in 1..Len(RequestSegments) :
            is_blocked(analyze_bash(RequestSegments[k].command, config, hook_input.cwd))
                => is_blocked(decision)

OperatorChars == {"&", "|", ";"}

OperatorSequences == {"&&", "||", "|", ";", "&"}

\* The character the splitter is about to read
SplitNextChar == Ch(split_input, split_state.next)

\* The splitter reads the next character inside quotes or after a backslash
SplitProtected ==
    split_state.escape_next \/ split_state.in_single_quote \/ split_state.in_double_quote

\* C4 (amended): an operator character (&, | or ;) that the splitter reads
\* inside single quotes, inside double quotes or directly after a backslash
\* never ends a segment: no segment is pushed and the character is appended
\* to the text of the current segment.
C4_ProtectedCharStays ==
    [][(/\ split_pc = "splitting"
        /\ split_pc' = "splitting"
        /\ split_state' # split_state
        /\ SplitProtected
        /\ SplitNextChar \in OperatorChars)
       => (/\ split_state'.segments = split_state.segments
           /\ split_state'.current = split_state.current \o SplitNextChar
           /\ split_state'.next = split_state.next + 1)]_vars

\* C4 witness: split_commands has returned, for an input with an escaped &
\* and a ; inside a single quote, one segment that holds both
C4_Witness ==
    /\ split_pc = "done"
    /\ split_input = "\\&';"
    /\ split_segments = <<CommandSegment("\\&';", None)>>

\* The locals of the splitter when it is about to read position i
SplitBefore(i) == SplitLoop(split_input, 1, i - 1, SplitInit)

\* Position i comes directly after a backslash that is outside quotes and
\* not itself escaped
AfterUnquotedBackslash(i) ==
    /\ i >= 2
    /\ Ch(split_input, i - 1) = "\\"
    /\ SplitBefore(i - 1).next = i - 1
    /\ ~SplitBefore(i - 1).escape_next
    /\ ~SplitBefore(i - 1).in_single_quote
    /\ ~SplitBefore(i - 1).in_double_quote

\* Position i is read inside single or double quotes
InsideQuotes(i) ==
    /\ SplitBefore(i).next = i
    /\ ~SplitBefore(i).escape_next
    /\ (SplitBefore(i).in_single_quote \/ SplitBefore(i).in_double_quote)

\* Some segment holds the text
InSomeSegment(text) ==
    \E k \in 1..Len(split_segments) : Contains(split_segments[k].command, text)

\* C4 (as claimed): every operator sequence (&&, ||, |, ;, &) that lies
\* inside quotes or directly after an unquoted backslash stays, whole, in
\* the text of a segment: it never ends one.
C4_OperatorSequenceStays ==
    split_pc = "done" =>
        \A i \in 1..Len(split_input), op \in OperatorSequences :
            (i + Len(op) - 1 <= Len(split_input)
             /\ SubSeq(split_input, i, i + Len(op) - 1) = op) =>
                /\ AfterUnquotedBackslash(i) => InSomeSegment("\\" \o op)
                /\ InsideQuotes(i) => InSomeSegment(op)

\* C5: the process ends with exit code 2 exactly when the verdict is Block
\* and with exit code 0 in every other case, for every request and policy,
\* audit logging included: it never ends with another code.
C5_ExitCode ==
    pc = "done" => exit_code = (IF is_blocked(decision) THEN 2 ELSE 0)

\* C6: fail-open on malformed input: a request body that does not decode
\* as the expected JSON object (unreadable, empty, invalid JSON, tool_name
\* or tool_input missing) never gets past the parse step, no analysis runs
\* for it, nothing is written to stdout, stderr or the audit log, and the
\* process ends with exit code 0.
C6_FailOpen ==
    stdin \in MalformedRequests =>
        /\ pc \in {"read_stdin", "parse", "done"}
        /\ decision = NoDecision
        /\ stdout = <<>>
        /\ stderr = <<>>
        /\ audit_log = <<>>
        /\ exit_code \in {Running, 0}
        /\ pc = "done" => exit_code = 0

\* C6 witness: a JSON body without tool_name that carries the command
\* rm -rf / has ended with exit code 0
C6_Witness ==
    /\ pc = "done"
    /\ stdin.kind = "json"
    /\ stdin.tool_name = None
    /\ stdin.tool_input.command = "rm -rf /"
    /\ decision = NoDecision
    /\ exit_code = 0

\* The scaffolding files of the claim
SCAFFOLD_PATHS == {".env.example", ".env.sample", ".env.template", ".env.dist"}

\* The policy in force has the default pattern \.env\b among its sensitive patterns
HasDefaultEnvPattern ==
    \E i \in 1..Len(config.sensitive_files) :
        config.sensitive_files[i] = DEFAULT_SENSITIVE_FILES[1]

\* C7: under a policy that has the default sensitive pattern \.env\b, the
\* sensitive-path matcher flags none of .env.example, .env.sample,
\* .env.template and .env.dist: check_sensitive_path returns Allow for the
\* path of every analysed Read request that names one of them.
C7_ScaffoldsAllowed ==
    (/\ Analyzed
     /\ as_read(hook_input)
     /\ hook_input.tool_input.file_path \in SCAFFOLD_PATHS
     /\ HasDefaultEnvPattern)
        => check_sensitive_path(hook_input.tool_input.file_path, config) = Allow

\* The path argument is an immediate child of the directory d: exactly one
\* named component below it
ImmediateChild(path, d) ==
    \E c \in PathComponents \ {".", ".."} :
        path = (IF d = "/" THEN "/" \o c ELSE d \o "/" \o c)

\* The path argument is one of the system directories or an immediate child of one
SystemPathOrChild(path) ==
    \E i \in 1..Len(DANGEROUS_PATHS) :
        path = DANGEROUS_PATHS[i] \/ ImmediateChild(path, DANGEROUS_PATHS[i])

\* C8: a recursive rm of a path that is one of /, /home, /etc, /usr, /var,
\* /root, /boot, /sys, /proc or an immediate child of one of them, whatever
\* the length of the child's name, is blocked with rule rm.dangerous_path,
\* with or without a cwd in the request.
C8_SystemPathsBlocked ==
    (rm_pc = "done" /\ SystemPathOrChild(rm_path))
        => (is_blocked(rm_decision) /\ rm_decision.rule = "rm.dangerous_path")

\* The components of a relative path climb above the directory they start in
RECURSIVE ClimbsAbove(_, _, _)
ClimbsAbove(components, i, depth) ==
    IF i > Len(components) THEN FALSE
    ELSE IF components[i] = ".."
    THEN depth = 0 \/ ClimbsAbove(components, i + 1, depth - 1)
    ELSE IF components[i] \in {".", ""} THEN ClimbsAbove(components, i + 1, depth)
    ELSE ClimbsAbove(components, i + 1, depth + 1)

\* C9: a recursive rm whose relative path argument climbs above the working
\* directory through ".." components is blocked for every request, the
\* requests without a cwd included.
C9_ParentEscapeBlocked ==
    (/\ rm_pc = "done"
     /\ ~IsAbsolute(rm_path)
     /\ ClimbsAbove(SplitOn(rm_path, "/"), 1, 0))
        => is_blocked(rm_decision)

\* The location a sequence of path components denotes below the root: "." and
\* empty components dropped, ".." removing the component before it
RECURSIVE Location(_, _, _)
Location(components, i, acc) ==
    IF i > Len(components) THEN acc
    ELSE IF components[i] \in {".", ""} THEN Location(components, i + 1, acc)
    ELSE IF components[i] = ".."
    THEN Location(components, i + 1,
                  IF Len(acc) = 0 THEN acc ELSE SubSeq(acc, 1, Len(acc) - 1))
    ELSE Location(components, i + 1, Append(acc, components[i]))

\* The location of a path argument resolved against the working directory
LocationOf(path, cwd) == Location(SplitOn(PathJoin(cwd, path), "/"), 1, <<>>)

\* The location loc is the directory base or lies below it
LiesWithin(loc, base) == Len(base) <= Len(loc) /\ SubSeq(loc, 1, Len(base)) = base

\* The path argument denotes a location inside cwd or inside an allowed path
DenotesInside(path, cwd, allowed_paths) ==
    \/ LiesWithin(LocationOf(path, cwd), LocationOf(cwd, "/"))
    \/ \E i \in 1..Len(allowed_paths) :
          LiesWithin(LocationOf(path, cwd), LocationOf(allowed_paths[i], "/"))

\* C10: path containment for recursive rm: when the path argument denotes a
\* location that is neither inside cwd nor inside an allowed path,
\* is_path_within returns false; relative paths, absolute paths with ".."
\* components and absolute paths that only share a string prefix with cwd
\* or an allowed path are covered.
C10_OutsideIsNotWithin ==
    (/\ rm_pc = "done"
     /\ rm_cwd # None
     /\ ~DenotesInside(rm_path, rm_cwd, ConfigDefault.rm.allowed_paths))
        => ~rm_within

\* The words after "git push", when the command is a push
PushArgs == IF git_args[1] = "push" THEN Tail(git_args) ELSE <<>>

\* A force flag is among the words of the push
PushHasForce ==
    \E i \in 1..Len(PushArgs) :
        \/ PushArgs[i] \in {"-f", "--force", "--force-with-lease"}
        \/ StartsWith(PushArgs[i], "--force-with-lease=")

\* The positions of the non-option arguments of the push
PushNonOptions == {i \in 1..Len(PushArgs) : ~StartsWith(PushArgs[i], "-")}

\* The branch of the push: its second non-option argument, None without one
PushBranch ==
    IF Cardinality(PushNonOptions) < 2 THEN None
    ELSE PushArgs[CHOOSE i \in PushNonOptions :
                      Cardinality({j \in PushNonOptions : j < i}) = 1]

\* The push must be blocked: forced, to a protected branch off the allow-list
PushMustBlock ==
    /\ PushHasForce
    /\ PushBranch \in {"main", "master", "develop", "release"}
    /\ ~InWords(git_policy.git.force_push_allowed_branches, PushBranch)

\* C11: git push is blocked with rule git.push.force exactly when a force
\* flag is present, the branch (the second non-option argument) is one of
\* main, master, develop, release and the branch is not in
\* force_push_allowed_branches; every other push is allowed.
C11_ForcePush ==
    (git_pc = "done" /\ git_args[1] = "push") =>
        IF PushMustBlock
        THEN is_blocked(git_decision) /\ git_decision.rule = "git.push.force"
        ELSE git_decision = Allow

\* C12: with git.block_add_sensitive off in the policy, no request of the
\* form git add <paths> receives a verdict with rule git.add.sensitive.
C12_AddFlagOff ==
    (/\ git_pc = "done"
     /\ git_args[1] = "add"
     /\ ~git_policy.git.block_add_sensitive)
        => git_decision.rule # "git.add.sensitive"

\* The first custom rule that decides on the Bash command is an allow rule
CustomAllowDecides(command, policy) ==
    /\ CustomHits("Bash", command, policy) # {}
    /\ policy.rules[FirstIndex(CustomHits("Bash", command, policy))].action = "allow"

\* C13: a custom rule with action allow that matches a Bash command
\* pre-empts the later built-in blocks: when such a rule decides and no deny
\* rule matched, the verdict of the request is Allow.
C13_CustomAllowPreempts ==
    (/\ Analyzed
     /\ as_bash(hook_input)
     /\ DenyHits("Bash", hook_input.tool_input.command, config) = {}
     /\ CustomAllowDecides(hook_input.tool_input.command, config))
        => decision = Allow

\* Six nested sudo around ls
SixSudo == "sudo sudo sudo sudo sudo sudo ls"

C15_DepthInvariant ==
    /\ strip_depth \in 0..MAX_STRIP_DEPTH
    /\ strip_pc = "done" => strip_result = strip_wrappers(strip_input)
    /\ (strip_pc = "done" /\ strip_input = SixSudo) => strip_result = "sudo ls"

\* A call either returns or calls at depth + 1; at the cap it returns its input
C15_CallStep ==
    strip_pc = "calling" =>
        /\ strip_depth' \in {strip_depth, strip_depth + 1}
        /\ strip_depth' = strip_depth + 1 => strip_pc' = "calling"
        /\ strip_depth' = strip_depth => strip_pc' = "done"
        /\ strip_depth = MAX_STRIP_DEPTH =>
              (strip_pc' = "done" /\ strip_result' = strip_command)

\* C15: strip_wrappers terminates with a bounded recursion: the depth never
\* exceeds 5, each recursive call is made at depth + 1, a call at depth 5
\* returns its input unchanged, the calls end with the result of
\* strip_wrappers, and six nested sudo leave one sudo in the result.
C15_BoundedDepth == [](C15_DepthInvariant) /\ [][C15_CallStep]_vars

\* C15 witness: the run on six nested sudo has ended at depth 5 with one
\* sudo left
C15_Witness ==
    /\ strip_pc = "done"
    /\ strip_input = SixSudo
    /\ strip_depth = MAX_STRIP_DEPTH
    /\ strip_result = "sudo ls"

\* The text of an operator
OperatorText(operator) ==
    CASE operator = "And" -> "&&"
      [] operator = "Or" -> "||"
      [] operator = "Pipe" -> "|"
      [] operator = "Semicolon" -> ";"
      [] operator = "Background" -> "&"

\* A segment followed by its operator
SegmentText(segment) ==
    IF segment.operator = None THEN segment.command
    ELSE segment.command \o " " \o OperatorText(segment.operator)

\* The segments with their operators, separated by spaces
RECURSIVE Rejoin(_)
Rejoin(segments) ==
    IF Len(segments) = 0 THEN ""
    ELSE IF Len(segments) = 1 THEN SegmentText(segments[1])
    ELSE SegmentText(segments[1]) \o " " \o Rejoin(Tail(segments))

\* C16: split round trip: joining the segments of split_commands(s) with
\* their operators, separated by spaces, and splitting the result again
\* yields the same sequence of (command text, operator) pairs.
C16_SplitRoundTrip ==
    split_pc = "done" => split_commands(Rejoin(split_segments)) = split_segments

\* C16 witness: an input with two operators was split into two segments,
\* the second with a trailing operator, and the round trip gives them back
C16_Witness ==
    /\ split_pc = "done"
    /\ split_input = "a|a;"
    /\ split_segments = <<CommandSegment("a", "Pipe"), CommandSegment("a", "Semicolon")>>
    /\ Rejoin(split_segments) = "a | a ;"
    /\ split_commands(Rejoin(split_segments)) = split_segments

\* C17: in every non-empty result of split_commands the last segment has
\* operator None and no other segment has operator None, also for inputs
\* that end with an operator.
C17_LastSegmentNone ==
    (split_pc = "done" /\ Len(split_segments) > 0) =>
        \A k \in 1..Len(split_segments) :
            (split_segments[k].operator = None) <=> (k = Len(split_segments))

\* The tool of a Write or Edit request that carries all its fields
WriteOrEditTool ==
    IF as_write(hook_input) THEN "Write"
    ELSE IF as_edit(hook_input) THEN "Edit"
    ELSE None

\* The path matches one of the policy's dependency-file patterns
MatchesDependencyPattern(path, policy) ==
    \E i \in 1..Len(policy.dependencies.patterns) :
        is_match(policy.dependencies.patterns[i], path)

\* A deny rule or a custom block rule for the tool decides first
BlockedFirst(tool, path, policy) ==
    \/ DenyHits(tool, path, policy) # {}
    \/ /\ CustomHits(tool, path, policy) # {}
       /\ policy.rules[FirstIndex(CustomHits(tool, path, policy))].action = "block"

\* The verdict expected for a Write or Edit of the path
DependencyVerdictOK(tool, path, policy, verdict) ==
    /\ (MatchesDependencyPattern(path, policy) /\ ~BlockedFirst(tool, path, policy)) =>
          IF policy.dependencies.enabled
          THEN /\ verdict.kind = "Ask"
               /\ verdict.rule = (IF tool = "Write" THEN "dependencies.write"
                                  ELSE "dependencies.edit")
               /\ verdict.suggestion = policy.dependencies.suggestion
          ELSE verdict = Allow
    /\ ~MatchesDependencyPattern(path, policy) => verdict.kind # "Ask"

\* C18: for Write and Edit requests a path that matches a dependency-file
\* pattern yields Ask, never Block, with rule dependencies.write or
\* dependencies.edit and the configured suggestion, unless a deny rule or a
\* custom block rule for the tool matched first; with dependency protection
\* disabled the verdict for such a path is Allow; a path that matches no
\* dependency pattern is never answered with Ask.
C18_DependencyAsk ==
    (Analyzed /\ WriteOrEditTool # None) =>
        DependencyVerdictOK(WriteOrEditTool, hook_input.tool_input.file_path, config,
                            decision)

\* C18 witness: the Edit of package.json under the default policy has ended
\* with an Ask that carries the suggestion, printed on stdout, exit code 0
C18_Witness ==
    /\ pc = "done"
    /\ as_edit(hook_input)
    /\ hook_input.tool_input.file_path = "package.json"
    /\ decision.kind = "Ask"
    /\ decision.rule = "dependencies.edit"
    /\ decision.suggestion = DependencyConfigDefault.suggestion
    /\ stdout # <<>>
    /\ exit_code = 0

\* Both files were read and merged: a request with a working directory has
\* passed Config::load without error
BothLayersLoaded ==
    /\ pc = "compile"
    /\ hook_input.cwd # None
    /\ user_file.exists /\ user_file.well_formed
    /\ project_file.exists /\ project_file.well_formed

\* The user file sets the key and the project file does not
OnlyUserSets(key) == key \in user_file.sets /\ key \notin project_file.sets

\* C19: layered merge of scalar fields: the project layer overrides a scalar
\* (read_commands, dependency suggestion, audit path) only when the project
\* file sets it; when a project file exists but does not set the field, the
\* value set by the user configuration is still the effective value after
\* load.
C19_UserScalarKept ==
    BothLayersLoaded =>
        /\ OnlyUserSets("read_commands") =>
              config.read_commands = user_file.values.read_commands
        /\ OnlyUserSets("dependencies.suggestion") =>
              config.dependencies.suggestion = user_file.values.dependencies.suggestion
        /\ OnlyUserSets("audit.path") =>
              config.audit.path = user_file.values.audit.path

\* The file writes dependencies.enabled = false
DisablesDependencies(file) ==
    "dependencies.enabled" \in file.sets /\ ~file.values.dependencies.enabled

\* A merged layer that disables dependency protection leaves it off
C20_OptOutRespected ==
    (\E i \in 1..Len(merge_layers) : DisablesDependencies(merge_layers[i])) =>
        ~merge_config.dependencies.enabled

\* One merge keeps an "on" of paranoid mode and of the audit log and an
\* "off" of dependency protection
C20_MergeStep ==
    /\ merge_config.paranoid.enabled => merge_config'.paranoid.enabled
    /\ merge_config.audit.enabled => merge_config'.audit.enabled
    /\ ~merge_config.dependencies.enabled => ~merge_config'.dependencies.enabled

\* C20: one-way booleans under merging: over any sequence of merged layers,
\* once paranoid.enabled or audit.enabled is true in the accumulated config
\* it stays true after every later merge, and once dependencies.enabled is
\* false it stays false after every later merge; a layer that sets
\* dependencies.enabled=false always results in dependency protection being
\* off.
C20_OneWayBooleans == [](C20_OptOutRespected) /\ [][C20_MergeStep]_vars

\* C20 witness: paranoid mode was turned on, dependency protection turned
\* off, and a third layer that writes both switches the other way was merged
C20_Witness ==
    /\ merge_pc = "done"
    /\ merge_layers = <<ParanoidLayer, DepsOffLayer, SwitchBackLayer>>
    /\ merge_config.paranoid.enabled
    /\ ~merge_config.dependencies.enabled

\* The audit log holds at most one entry per request, written for the
\* verdict of that request
C21_AtMostOneEntry ==
    /\ Len(audit_log) <= 1
    /\ audit_log # <<>> =>
          /\ decision # NoDecision
          /\ audit_log[1].blocked = (decision.kind = "Block")
          /\ audit_log[1].asked = (decision.kind = "Ask")

\* The audit step leaves verdict, exit code and output as they are whether
\* or not an entry is written; an entry is written only by the audit step;
\* the output step emits what the verdict alone determines
C21_AuditStep ==
    /\ (pc = "audit" /\ exit_code' # PANIC_EXIT_CODE) =>
          /\ pc' = "output"
          /\ UNCHANGED <<decision, exit_code, stdout, stderr>>
    /\ audit_log' # audit_log => (pc = "audit" /\ pc' = "output")
    /\ pc = "output" =>
          /\ pc' = "done"
          /\ UNCHANGED <<decision, audit_log>>
          /\ exit_code' = (IF decision.kind = "Block" THEN 2 ELSE 0)
          /\ stdout' = (IF decision.kind = "Ask"
                        THEN <<format_response(decision), "\n">> ELSE <<>>)
          /\ stderr' = (IF decision.kind = "Block"
                        THEN <<format_response(decision)>> ELSE <<>>)

\* C21: a failure to open or to write the audit log never changes the
\* outcome of a request: the verdict, the exit code and the response text
\* are the same as when the audit write succeeds, and the audit step runs
\* after the verdict is computed and before the response is emitted, at most
\* once per request.
C21_AuditFailureIgnored == [](C21_AtMostOneEntry) /\ [][C21_AuditStep]_vars

\* C21 witness: with the audit log switched on and a path set, a blocked
\* request has ended with exit code 2 and its message although no entry
\* reached the log
C21_Witness ==
    /\ pc = "done"
    /\ config.audit.enabled
    /\ config.audit.path # None
    /\ audit_log = <<>>
    /\ decision.kind = "Block"
    /\ exit_code = 2
    /\ stderr = <<format_response(decision)>>

\* The summary of a command text as the claim describes it
SummaryOK(text, summary) ==
    IF ByteLen(text) <= SUMMARY_MAX_LEN
    THEN summary = text
    ELSE ByteLen(summary) <= SUMMARY_MAX_LEN /\ EndsWith(summary, "...")

\* C22: audit summary truncation: for every command text, the summary equals
\* the text when its length is at most 200, and otherwise is a string of
\* length at most 200 that ends with '...'; producing the summary never
\* fails, also when the text contains multi-byte characters around the cut
\* position.
C22_SummaryTruncation ==
    (pc = "audit" /\ hook_input.tool_input.command # None) =>
        /\ ~TruncatePanics(hook_input.tool_input.command, SUMMARY_MAX_LEN)
        /\ SummaryOK(hook_input.tool_input.command,
                     AuditEntry(hook_input, decision).summary)

\* The tool and the text the custom rules are consulted with for the request
RequestTool ==
    IF as_bash(hook_input) THEN "Bash"
    ELSE IF as_read(hook_input) THEN "Read"
    ELSE WriteOrEditTool

RequestContent ==
    IF as_bash(hook_input) THEN hook_input.tool_input.command
    ELSE hook_input.tool_input.file_path

\* The outcome the first deciding rule stands for
FirstRuleOutcome(tool, content, policy) ==
    LET i == FirstIndex(CustomHits(tool, content, policy)) IN
    IF i = 0 THEN Allow
    ELSE IF policy.rules[i].action = "allow" THEN Allow
    ELSE Block(policy.rules[i].name,
               IF policy.rules[i].reason # None THEN policy.rules[i].reason
               ELSE "blocked by custom rule '" \o policy.rules[i].name \o "'")

\* C23: check_custom_rules returns the outcome of the first rule, in
\* declaration order, whose tool equals the request's tool, whose pattern
\* matches the content and whose action is 'allow' or 'block': Allow for
\* 'allow' (later rules, matching block rules included, are not consulted)
\* and Block with the rule's name and its reason (or the default reason
\* naming the rule) for 'block'; rules for another tool, rules with an
\* unknown action and rules whose pattern does not compile are skipped, and
\* when no rule decides the result is Allow.
C23_FirstCustomRule ==
    (Analyzed /\ RequestTool # None) =>
        check_custom_rules(RequestTool, RequestContent, config)
            = FirstRuleOutcome(RequestTool, RequestContent, config)

\* C23 witness: "docker ps" was analysed under rules where a rule with an
\* unknown action matches first, then an allow rule, then a block rule
C23_Witness ==
    /\ pc = "done"
    /\ as_bash(hook_input)
    /\ hook_input.tool_input.command = "docker ps"
    /\ \E i, j, k \in 1..Len(config.rules) :
          /\ i < j /\ j < k
          /\ config.rules[i].action = "warn"
          /\ is_match(config.rules[i].pattern, "docker ps")
          /\ j = FirstIndex(CustomHits("Bash", "docker ps", config))
          /\ config.rules[j].action = "allow"
          /\ k \in CustomHits("Bash", "docker ps", config)
          /\ config.rules[k].action = "block"
    /\ check_custom_rules("Bash", "docker ps", config) = Allow

\* C24: the sensitive-path matcher and the git-add path check agree: with
\* block_add_sensitive on, for every path argument p (arguments that begin
\* with '-' or have the form name=value included), the request 'git add p'
\* is blocked with rule git.add.sensitive if and only if
\* check_sensitive_path(p) blocks.
C24_GitAddAgrees ==
    (/\ git_pc = "done"
     /\ git_args[1] = "add"
     /\ Len(git_args) = 2
     /\ git_policy.git.block_add_sensitive)
        => ((is_blocked(git_decision) /\ git_decision.rule = "git.add.sensitive")
               <=> is_blocked(check_sensitive_path(git_args[2], git_policy)))

\* A word of short flags (-f, -fd, -df, ...) that carries the letter
ShortFlag(w, letter) ==
    StartsWith(w, "-") /\ ~StartsWith(w, "--") /\ Contains(w, letter)

\* git clean is asked to force
CleanForce(args) ==
    \E i \in 1..Len(args) : args[i] = "--force" \/ ShortFlag(args[i], "f")

\* git clean is asked for directories or ignored files
CleanExtra(args) ==
    \E i \in 1..Len(args) :
        ShortFlag(args[i], "d") \/ ShortFlag(args[i], "x") \/ ShortFlag(args[i], "X")

\* C25: git clean is blocked whenever force is requested, whether the force
\* flag is a word of its own (-f, --force) or part of a combined short-flag
\* word such as -fd, -fx, -fdx or -df; the stronger rule git.clean.force is
\* used when -d, -x or -X is requested together with force.
C25_CleanForce ==
    (git_pc = "done" /\ git_args[1] = "clean" /\ CleanForce(From(git_args, 2))) =>
        /\ is_blocked(git_decision)
        /\ git_decision.rule = (IF CleanExtra(From(git_args, 2)) THEN "git.clean.force"
                                ELSE "git.clean")

\* The character the tokenizer is about to read
TokNextChar == Ch(tok_input, tok_state.next)

\* One pass of the tokenizer's loop is taken
TokStepTaken == tok_pc = "tokenizing" /\ tok_pc' = "tokenizing" /\ tok_state' # tok_state

TokOutsideQuotes == ~tok_state.in_single_quote /\ ~tok_state.in_double_quote

\* The character read is appended to the current word, and no word ends
TokAppended(c) ==
    /\ tok_state'.current = tok_state.current \o c
    /\ tok_state'.tokens = tok_state.tokens

\* Backslashes: outside quotes the backslash is dropped and the next
\* character appended; inside double quotes both are kept; inside single
\* quotes a backslash is an ordinary character.  Tokens are only added at
\* the end, and every pass moves on in the input.
C26_EscapeStep ==
    TokStepTaken =>
        /\ (TokOutsideQuotes /\ ~tok_state.escape_next /\ TokNextChar = "\\") =>
              /\ TokAppended("")
              /\ tok_state'.escape_next
        /\ tok_state.escape_next =>
              /\ TokAppended(TokNextChar)
              /\ ~tok_state'.escape_next
              /\ tok_state'.in_double_quote = tok_state.in_double_quote
        /\ (tok_state.in_double_quote /\ ~tok_state.escape_next /\ TokNextChar = "\\") =>
              /\ TokAppended("\\")
              /\ tok_state'.escape_next
        /\ tok_state.in_single_quote =>
              /\ ~tok_state.escape_next
              /\ TokNextChar # "'" =>
                    /\ TokAppended(TokNextChar)
                    /\ ~tok_state'.escape_next
                    /\ tok_state'.in_single_quote
        /\ SubSeq(tok_state'.tokens, 1, Len(tok_state.tokens)) = tok_state.tokens
        /\ tok_state'.next > tok_state.next

\* A quote that opens or closes a quoted part is not appended to the word
C26_QuoteStep ==
    (/\ TokStepTaken
     /\ ~tok_state.escape_next
     /\ \/ TokNextChar = "'" /\ ~tok_state.in_double_quote
        \/ TokNextChar = "\"" /\ ~tok_state.in_single_quote)
        => TokAppended("")

\* No token of the result holds a quote character
C26_NoQuoteInToken ==
    \A k \in 1..Len(tok_tokens) :
        ~Contains(tok_tokens[k].text, "'") /\ ~Contains(tok_tokens[k].text, "\"")

\* The result of the passes is the result of tokenize
C26_Returns == tok_pc = "done" => tok_tokens = tokenize(tok_input)

\* C26: tokenizer escaping and quoting: for every input, a backslash outside
\* quotes is dropped and the character after it is appended to the current
\* word literally (an escaped space or operator character does not end the
\* word); inside double quotes both the backslash and the following
\* character are kept; inside single quotes a backslash is an ordinary
\* character; quote characters themselves never appear in a token; tokens
\* are emitted in input order and tokenize returns for every input.
C26_TokenizerQuoting ==
    [](C26_NoQuoteInToken /\ C26_Returns) /\ [][C26_EscapeStep]_vars

\* C26 (amended): as above, with the statement about quote characters
\* narrowed to the quotes that open or close a quoted part: those are never
\* appended to a word, while an escaped quote and a quote of the other kind
\* inside a quoted part are kept as text.
C26_TokenizerQuotingAmended ==
    [](C26_Returns) /\ [][C26_EscapeStep /\ C26_QuoteStep]_vars

\* C26 witness: tokenize has returned one word for an escaped space followed
\* by a double quote inside single quotes
C26_Witness ==
    /\ tok_pc = "done"
    /\ tok_input = "\\ '\""
    /\ tok_tokens = <<Word(" \"")>>

\* The three quoting flags of the locals of a scanner
QuotingState(st) == <<st.in_single_quote, st.in_double_quote, st.escape_next>>

\* The locals of the splitter when it has read the characters before
\* position i of the tokenizer's input
SplitterBefore(i) == SplitLoop(tok_input, 1, i - 1, SplitInit)

\* C27: the splitter and the tokenizer keep the same quoting state: run side
\* by side over the same input string, both are in the same
\* (in-single-quote, in-double-quote, escape-next) state before every
\* character, so a position is treated as quoted or escaped by the splitter
\* exactly when the tokenizer treats it so.
C27_SameQuotingState ==
    tok_pc = "tokenizing" =>
        QuotingState(tok_state) = QuotingState(SplitterBefore(tok_state.next))

\* C27 witness: both scanners have read a double quote and a backslash and
\* are inside double quotes with the next character escaped
C27_Witness ==
    /\ tok_pc = "tokenizing"
    /\ tok_input = "a\"\\&"
    /\ tok_state.next = 4
    /\ QuotingState(tok_state) = <<FALSE, TRUE, TRUE>>
    /\ QuotingState(SplitterBefore(4)) = <<FALSE, TRUE, TRUE>>

\* The policy with the other value of git.block_destructive
OtherDestructiveFlag(policy) ==
    [policy EXCEPT !.git.block_destructive = ~policy.git.block_destructive]

\* C28: the git.block_destructive flag has no effect on any verdict: for
\* every request, two policies that differ only in the value of
\* git.block_destructive produce the same verdict, so the destructive-git
\* analyzers (checkout, reset, push, branch, stash, clean) fire also when
\* the flag is false.
C28_DestructiveFlagIgnored ==
    git_pc = "done" =>
        git_decision = analyze_bash(Join(<<"git">> \o git_args, " "),
                                    OtherDestructiveFlag(git_policy), None)

\* C28 witness: with git.block_destructive = false, git reset --hard has
\* been blocked as under the default policy
C28_Witness ==
    /\ git_pc = "done"
    /\ ~git_policy.git.block_destructive
    /\ git_args = <<"reset", "--hard">>
    /\ git_decision = Block("git.reset.hard",
                            "git reset --hard discards all uncommitted changes")
    /\ git_decision = analyze_bash("git reset --hard", ConfigDefault, None)

\* The three flags Config::merge never assigns
FixedFlags(policy) ==
    <<policy.rm.block_outside_cwd, policy.git.block_add_sensitive,
      policy.git.block_destructive>>

\* C29: Config::merge leaves rm.block_outside_cwd, git.block_add_sensitive
\* and git.block_destructive of the receiving configuration unchanged
\* whatever the merged layer contains; hence after Config::load these three
\* flags always have their built-in default value true, and no user or
\* project file can switch them off.
C29_FlagsNeverMerged ==
    [](FixedFlags(merge_config) = <<TRUE, TRUE, TRUE>>)
        /\ [][FixedFlags(merge_config') = FixedFlags(merge_config)]_vars

\* C29 witness: a file that writes false for the three flags has been merged
\* and load has returned a configuration with all three still true
C29_Witness ==
    /\ merge_pc = "done"
    /\ merge_layers = <<FlagsOffLayer>>
    /\ FixedFlags(FromToml(FlagsOffLayer)) = <<FALSE, FALSE, FALSE>>
    /\ FixedFlags(merge_config) = <<TRUE, TRUE, TRUE>>

\* C30: stripping a wrapper preserves the inner command's words: for every
\* inner command C and every recognized wrapper prefix with its options, the
\* Word tokens of tokenize(strip_wrappers(wrapper + ' ' + C)) are the Word
\* tokens of tokenize(C), also when arguments of C are quoted and contain
\* whitespace, operator characters or a leading '-'.
C30_StripKeepsWords ==
    (wrap_pc = "done" /\ wrap_count >= 1) =>
        WordsOf(tokenize(strip_wrappers(wrap_command))) = WordsOf(tokenize(wrap_inner))

====
